---- MODULE Spec2Model ----
(***************************************************************************)
(* Document structure recovery and pattern based knowledge extraction of   *)
(* the paper assistant backend: layout analysis, entity recognition,       *)
(* relationship extraction and the parsing pipeline that drives them.      *)
(*                                                                         *)
(* Text is a sequence of characters.  An ASCII character is the one        *)
(* character string; a code point outside ASCII is a longer name: "Uxxxx"  *)
(* for a CJK ideograph, "Pxxxx" for punctuation.                           *)
(***************************************************************************)
EXTENDS Integers, Sequences, FiniteSets, TLC

\* ------------------------------------------------------------------------
\* Characters and strings (Python str)
\* ------------------------------------------------------------------------

S(s) == [i \in 1..Len(s) |-> SubSeq(s, i, i)]

UpperSeq == S("ABCDEFGHIJKLMNOPQRSTUVWXYZ")

LowerSeq == S("abcdefghijklmnopqrstuvwxyz")

Uppers == {UpperSeq[i] : i \in 1..26}

Lowers == {LowerSeq[i] : i \in 1..26}

Digits == {"0", "1", "2", "3", "4", "5", "6", "7", "8", "9"}

Spaces == {" ", "\n", "\t"}

LowerMap == [c \in Uppers |-> LowerSeq[CHOOSE i \in 1..26 : UpperSeq[i] = c]]

UpperMap == [c \in Lowers |-> UpperSeq[CHOOSE i \in 1..26 : LowerSeq[i] = c]]

LowerCh(c) == IF c \in Uppers THEN LowerMap[c] ELSE c

UpperCh(c) == IF c \in Lowers THEN UpperMap[c] ELSE c

\* str.lower()
Lower(s) == [i \in 1..Len(s) |-> LowerCh(s[i])]

\* a code point of the CJK block, [\u4e00-\u9fff]
IsCJK(c) == Len(c) > 1 /\ SubSeq(c, 1, 1) = "U"

\* \u00b2, a digit of str.isdigit() that is no decimal digit: \d does not
\* match it, \w does, int() raises ValueError on it
Superscripts == {"P00B2"}

\* a character of \w
IsWord(c) == c \in Uppers \cup Lowers \cup Digits \cup Superscripts \cup {"_"} \/ IsCJK(c)

RECURSIVE LStripFrom(_, _)
LStripFrom(s, i) ==
    IF i <= Len(s) /\ s[i] \in Spaces THEN LStripFrom(s, i + 1) ELSE i

RECURSIVE RStripTo(_, _)
RStripTo(s, j) ==
    IF j >= 1 /\ s[j] \in Spaces THEN RStripTo(s, j - 1) ELSE j

\* str.strip()
Strip(s) == SubSeq(s, LStripFrom(s, 1), RStripTo(s, Len(s)))

\* sep.join(parts)
RECURSIVE Join(_, _)
Join(sep, parts) ==
    IF parts = <<>> THEN <<>>
    ELSE IF Len(parts) = 1 THEN parts[1]
    ELSE parts[1] \o sep \o Join(sep, Tail(parts))

MinOf(set) == CHOOSE x \in set : \A o \in set : x <= o

MaxOf(set) == CHOOSE x \in set : \A o \in set : x >= o

\* s.split("\n"), from position from on
RECURSIVE SplitLines(_, _)
SplitLines(s, from) ==
    IF \E i \in from..Len(s) : s[i] = "\n"
    THEN <<SubSeq(s, from, MinOf({i \in from..Len(s) : s[i] = "\n"}) - 1)>>
            \o SplitLines(s, MinOf({i \in from..Len(s) : s[i] = "\n"}) + 1)
    ELSE <<SubSeq(s, from, Len(s))>>

\* ------------------------------------------------------------------------
\* Regular expressions (Python re): a backtracking matcher over a syntax
\* tree, alternatives and repetitions tried in Python's priority order.
\* ------------------------------------------------------------------------

RxLit(str) == [k |-> "lit", v |-> S(str)]

RxChars(cs) == [k |-> "lit", v |-> cs]

RxSet(set) == [k |-> "set", v |-> set]

RxNotSet(set) == [k |-> "nset", v |-> set]

\* [\w...]: a word character or one of set
RxWordOr(set) == [k |-> "wset", v |-> set]

RxWord == RxWordOr({})

RxAny == [k |-> "any"]

RxSeq(rs) == [k |-> "seq", v |-> rs]

RxAlt(rs) == [k |-> "alt", v |-> rs]

\* r{lo,hi}, hi = -1 for no upper limit
RxRep(r, lo, hi) == [k |-> "rep", r |-> r, lo |-> lo, hi |-> hi, lazy |-> FALSE]

RxLazy(r, lo, hi) == [k |-> "rep", r |-> r, lo |-> lo, hi |-> hi, lazy |-> TRUE]

RxOpt(r) == RxRep(r, 0, 1)

RxStar(r) == RxRep(r, 0, -1)

RxPlus(r) == RxRep(r, 1, -1)

RxCap(g, r) == [k |-> "cap", g |-> g, r |-> r]

RxBol == [k |-> "bol"]

RxEol == [k |-> "eol"]

RxWb == [k |-> "wb"]

RxLook(r) == [k |-> "look", r |-> r]

\* \s, \s*, \s+, \d
RxSp == RxSet(Spaces)

RxSp0 == RxStar(RxSp)

RxSp1 == RxPlus(RxSp)

RxDigit == RxSet(Digits)

\* \S
RxNotSp == RxNotSet(Spaces)

\* alternation of literal words
RxWords(ws) == RxAlt([i \in 1..Len(ws) |-> RxLit(ws[i])])

NoGroups == <<<<0, 0>>, <<0, 0>>>>

RxFail == [p |-> 0, c |-> NoGroups]

RxStart(i) == [p |-> i, c |-> NoGroups]

ChEq(a, b, ic) == a = b \/ (ic /\ LowerCh(a) = LowerCh(b))

LitAt(v, s, p, ic) ==
    /\ p + Len(v) - 1 <= Len(s)
    /\ \A i \in 1..Len(v) : ChEq(v[i], s[p + i - 1], ic)

InSet(c, set, ic) ==
    c \in set \/ (ic /\ (LowerCh(c) \in set \/ UpperCh(c) \in set))

AtWordBoundary(s, p) ==
    LET before == p > 1 /\ IsWord(s[p - 1])
        after  == p <= Len(s) /\ IsWord(s[p])
    IN  before # after

\* whether character c is matched by the one character pattern n
OneChar(n, c, fl) ==
    CASE n.k = "set"  -> InSet(c, n.v, fl.ic)
      [] n.k = "nset" -> ~InSet(c, n.v, fl.ic)
      [] n.k = "wset" -> IsWord(c) \/ InSet(c, n.v, fl.ic)
      [] n.k = "any"  -> fl.da \/ c # "\n"

IsOneChar(n) == n.k \in {"set", "nset", "wset", "any"}

\* how many characters from position p on the one character pattern n matches
RunLength(n, s, p, fl) ==
    CHOOSE r \in 0..(Len(s) + 1 - p) :
        /\ \A i \in 0..(r - 1) : OneChar(n, s[p + i], fl)
        /\ (p + r > Len(s) \/ ~OneChar(n, s[p + r], fl))

\* the most characters the repetition n may take of a run of matching ones
Top(n, run) == IF n.hi # -1 /\ n.hi < run THEN n.hi ELSE run

\* of the outcomes [k, r] of taking k characters, the successful one the
\* matcher reaches first
Preferred(outcomes, lazy) ==
    LET ok == {m \in outcomes : m.r.p # 0}
    IN  IF ok = {} THEN RxFail
        ELSE (CHOOSE m \in ok :
                \A o \in ok : IF lazy THEN m.k <= o.k ELSE m.k >= o.k).r

RECURSIVE RxRun(_, _, _, _)
RxRun(stk, s, st, fl) ==
    IF stk = <<>> THEN st
    ELSE
      LET n    == Head(stk)
          rest == Tail(stk)
          step == [st EXCEPT !.p = @ + 1]
          has  == st.p <= Len(s)
      IN
      CASE n.k = "lit" ->
             IF LitAt(n.v, s, st.p, fl.ic)
             THEN RxRun(rest, s, [st EXCEPT !.p = @ + Len(n.v)], fl)
             ELSE RxFail
        [] IsOneChar(n) ->
             IF has /\ OneChar(n, s[st.p], fl)
             THEN RxRun(rest, s, step, fl) ELSE RxFail
        [] n.k = "seq" -> RxRun(n.v \o rest, s, st, fl)
        [] n.k = "alt" ->
             IF n.v = <<>> THEN RxFail
             ELSE LET r == RxRun(<<Head(n.v)>> \o rest, s, st, fl)
                  IN  IF r.p # 0 THEN r
                      ELSE RxRun(<<[n EXCEPT !.v = Tail(@)]>> \o rest, s, st, fl)
        [] n.k = "rep" /\ IsOneChar(n.r) ->
             \* the repetition takes k characters: the least k (lazy) or the
             \* greatest k (greedy) after which the rest of the pattern matches
             Preferred({[k |-> k, r |-> RxRun(rest, s, [st EXCEPT !.p = @ + k], fl)] :
                          k \in n.lo..Top(n, RunLength(n.r, s, st.p, fl))}, n.lazy)
        [] n.k = "rep" /\ ~IsOneChar(n.r) ->
             LET again == [n EXCEPT !.lo = IF @ > 0 THEN @ - 1 ELSE 0,
                                    !.hi = IF @ = -1 THEN -1 ELSE @ - 1]
                 more  == IF n.hi = 0 THEN RxFail
                          ELSE RxRun(<<n.r, again>> \o rest, s, st, fl)
                 stop  == IF n.lo > 0 THEN RxFail
                          ELSE RxRun(rest, s, st, fl)
             IN  IF n.lazy
                 THEN (IF stop.p # 0 THEN stop ELSE more)
                 ELSE (IF more.p # 0 THEN more ELSE stop)
        [] n.k = "cap" ->
             RxRun(<<[k |-> "cs", g |-> n.g], n.r, [k |-> "ce", g |-> n.g]>>
                     \o rest, s, st, fl)
        [] n.k = "cs" ->
             RxRun(rest, s, [st EXCEPT !.c[n.g] = <<st.p, st.p>>], fl)
        [] n.k = "ce" ->
             RxRun(rest, s, [st EXCEPT !.c[n.g] = <<@[1], st.p>>], fl)
        [] n.k = "bol" ->
             IF st.p = 1 THEN RxRun(rest, s, st, fl) ELSE RxFail
        [] n.k = "eol" ->
             IF st.p = Len(s) + 1 \/ (st.p = Len(s) /\ s[st.p] = "\n")
             THEN RxRun(rest, s, st, fl) ELSE RxFail
        [] n.k = "wb" ->
             IF AtWordBoundary(s, st.p) THEN RxRun(rest, s, st, fl) ELSE RxFail
        [] n.k = "look" ->
             IF RxRun(<<n.r>>, s, st, fl).p # 0
             THEN RxRun(rest, s, st, fl) ELSE RxFail

Flags(ic, da) == [ic |-> ic, da |-> da]

NoMatch == [b |-> 0, e |-> 0, c |-> NoGroups]

\* re.match: at the start of s
RxMatch(re, s, fl) == RxRun(<<re>>, s, RxStart(1), fl).p # 0

AsMatch(i, r) == IF r.p = 0 THEN NoMatch ELSE [b |-> i, e |-> r.p, c |-> r.c]

FirstHit(hits) ==
    IF hits = {} THEN NoMatch
    ELSE CHOOSE m \in hits : \A o \in hits : m.b <= o.b

\* the leftmost match starting at or after position from
RxSearchFrom(re, s, from, fl) ==
    FirstHit({m \in {AsMatch(i, RxRun(<<re>>, s, RxStart(i), fl)) :
                        i \in from..(Len(s) + 1)} : m.b # 0})

\* re.search
RxSearch(re, s, fl) ==
    \E i \in 1..(Len(s) + 1) : RxRun(<<re>>, s, RxStart(i), fl).p # 0

\* re.finditer: the non-overlapping matches, left to right
RECURSIVE RxFindIter(_, _, _, _)
RxFindMore(re, s, fl, m) ==
    IF m.b = 0 THEN <<>>
    ELSE <<m>> \o RxFindIter(re, s, IF m.e > m.b THEN m.e ELSE m.e + 1, fl)

RxFindIter(re, s, from, fl) == RxFindMore(re, s, fl, RxSearchFrom(re, s, from, fl))

\* m.group(g)
Group(s, m, g) == SubSeq(s, m.c[g][1], m.c[g][2] - 1)

\* m.group(0)
Whole(s, m) == SubSeq(s, m.b, m.e - 1)

\* ------------------------------------------------------------------------
\* Relationship extraction (core/nlp/relation_extractor.py)
\* An entity is [text, entity_type]; a relationship is [source, target,
\* relation_type, description, confidence], the confidence in hundredths.
\* ------------------------------------------------------------------------

\* w followed by an optional suffix: uses?, evaluated?, surpass(?:es)?
RxW(w, suffix) == RxSeq(<<RxLit(w), RxOpt(RxLit(suffix))>>)

RELATION_INDICATORS(src, tgt) ==
    LET s0 == RxChars(src)
        t0 == RxChars(tgt)
    IN
    << [rel |-> "uses", patterns |-> <<
          RxSeq(<<s0, RxSp1,
                  RxAlt(<<RxW("use", "s"), RxW("utilize", "s"), RxW("employ", "s"),
                          RxW("leverage", "s"), RxLit("applies")>>),
                  RxSp1, t0>>),
          RxSeq(<<t0, RxSp1, RxOpt(RxSeq(<<RxLit("is"), RxSp1>>)),
                  RxWords(<<"used", "utilized", "employed", "applied">>),
                  RxSp1, RxWords(<<"by", "in", "for">>), RxSp1, s0>>),
          RxSeq(<<RxWords(<<"using", "with", "via", "through">>), RxSp1, t0>>) >>],
       [rel |-> "evaluates_on", patterns |-> <<
          RxSeq(<<s0, RxSp1,
                  RxAlt(<<RxLit("on"),
                          RxSeq(<<RxW("evaluate", "d"), RxSp1, RxLit("on")>>),
                          RxSeq(<<RxW("teste", "d"), RxSp1, RxLit("on")>>),
                          RxSeq(<<RxW("benchmarke", "d"), RxSp1, RxLit("on")>>)>>),
                  RxSp1, t0>>),
          RxSeq(<<RxWords(<<"evaluate", "test", "benchmark">>), RxSp1, s0,
                  RxSp1, RxLit("on"), RxSp1, t0>>),
          RxSeq(<<RxAlt(<<RxSeq(<<RxW("result", "s"), RxSp1, RxLit("on")>>),
                          RxSeq(<<RxLit("performance"), RxSp1, RxLit("on")>>)>>),
                  RxSp1, t0>>) >>],
       [rel |-> "improves", patterns |-> <<
          RxSeq(<<s0, RxSp1,
                  RxAlt(<<RxW("improve", "s"), RxW("outperform", "s"),
                          RxW("surpass", "es"), RxW("exceed", "s"), RxW("beat", "s")>>),
                  RxSp1, t0>>),
          RxSeq(<<s0, RxSp1, RxW("achieve", "s"), RxSp1,
                  RxWords(<<"better", "higher", "superior">>), RxSp1,
                  RxOpt(RxSeq(<<RxPlus(RxWord), RxSp1>>)),
                  RxWords(<<"than", "over">>), RxSp1, t0>>) >>],
       [rel |-> "comparative", patterns |-> <<
          RxSeq(<<s0, RxSp1,
                  RxAlt(<<RxSeq(<<RxW("compare", "d"), RxSp1, RxWords(<<"to", "with">>)>>),
                          RxW("vs", "."), RxLit("versus")>>),
                  RxSp1, t0>>),
          RxSeq(<<RxLit("comparison"), RxSp1, RxWords(<<"between", "of">>), RxSp1,
                  s0, RxSp1, RxLit("and"), RxSp1, t0>>) >>],
       [rel |-> "part_of", patterns |-> <<
          RxSeq(<<s0, RxSp1, RxWords(<<"component", "module", "layer", "part">>),
                  RxSp1, RxLit("of"), RxSp1, t0>>),
          RxSeq(<<t0, RxSp1,
                  RxAlt(<<RxSeq(<<RxW("consist", "s"), RxSp1, RxLit("of")>>),
                          RxW("include", "s"), RxW("contain", "s")>>),
                  RxSp1, s0>>) >>] >>

\* TYPE_RELATIONS.get((a, b)); "" is None
TYPE_RELATIONS(a, b) ==
    CASE a = "method" /\ b = "dataset"              -> "evaluates_on"
      [] a = "method" /\ b = "metric"               -> "evaluates_on"
      [] a = "method" /\ b = "tool"                 -> "uses"
      [] a = "method" /\ b = "theory"               -> "uses"
      [] a = "method" /\ b = "baseline"             -> "comparative"
      [] a = "innovation" /\ b = "method"           -> "improves"
      [] a = "innovation" /\ b = "baseline"         -> "improves"
      [] a = "research_problem" /\ b = "method"     -> "causal"
      [] a = "research_problem" /\ b = "innovation" -> "causal"
      [] OTHER                                      -> ""

Starts(ms) == {ms[i].b : i \in 1..Len(ms)}

\* [m.start() for m in re.finditer(re.escape(e), text)]
Positions(e, text) == Starts(RxFindIter(RxChars(e), text, 1, Flags(FALSE, FALSE)))

Abs(n) == IF n < 0 THEN -n ELSE n

\* if not pos1 or not pos2: return False; any pair closer than window
Near(pos1, pos2, window) ==
    /\ pos1 # {}
    /\ pos2 # {}
    /\ \E p1 \in pos1 : \E p2 \in pos2 : Abs(p1 - p2) < window

_entities_co_occur(e1_text, e2_text, context, window) ==
    Near(Positions(Lower(e1_text), Lower(context)),
         Positions(Lower(e2_text), Lower(context)), window)

\* the relation type of the first entry of table, from entry r on, one of
\* whose templates is found in text; "" is None
RECURSIVE FirstRelation(_, _, _)
FirstRelation(table, text, r) ==
    IF r > Len(table) THEN ""
    ELSE IF \E q \in 1..Len(table[r].patterns) :
               RxSearch(table[r].patterns[q], text, Flags(FALSE, FALSE))
         THEN table[r].rel
         ELSE FirstRelation(table, text, r + 1)

_check_pattern_relation(src_text, tgt_text, context) ==
    FirstRelation(RELATION_INDICATORS(Lower(src_text), Lower(tgt_text)),
                  Lower(context), 1)

EntityCap == 40

CoOccurWindow == 250

PatternConfidence == 70

CoOccurConfidence == 50

\* entities, not cut
limit_unbounded(list) == list

\* entities[:40]
limit(list) == SubSeq(list, 1, IF Len(list) < EntityCap THEN Len(list) ELSE EntityCap)

Relationship(src, tgt, rel_type, conf) ==
    [source |-> src, target |-> tgt, relation_type |-> rel_type,
     description |-> src \o S(" ") \o S(rel_type) \o S(" ") \o tgt,
     confidence |-> conf]

pair_key(e1, e2) == <<Lower(e1.text), Lower(e2.text)>>

\* the relationships a stage adds: one from src to tgt when the stage found
\* the relation type rel_type, none when it found None
Found(src, tgt, rel_type, conf) ==
    IF rel_type = "" THEN <<>> ELSE <<Relationship(src.text, tgt.text, rel_type, conf)>>

\* forward, and only when forward found nothing, reverse
Either(forward, reverse) == IF forward # <<>> THEN forward ELSE reverse

\* pattern-based extraction, src -> tgt then tgt -> src
PatternStage(e1, e2, context) ==
    Either(Found(e1, e2, _check_pattern_relation(e1.text, e2.text, context),
                 PatternConfidence),
           Found(e2, e1, _check_pattern_relation(e2.text, e1.text, context),
                 PatternConfidence))

\* type-based inference that keeps e1 as the source in both orientations
TypeStage_unswapped(e1, e2, context) ==
    IF _entities_co_occur(e1.text, e2.text, context, CoOccurWindow)
    THEN Either(Found(e1, e2, TYPE_RELATIONS(e1.entity_type, e2.entity_type),
                      CoOccurConfidence),
                Found(e1, e2, TYPE_RELATIONS(e2.entity_type, e1.entity_type),
                      CoOccurConfidence))
    ELSE <<>>

\* type-based inference if the entities co-occur
TypeStage(e1, e2, context) ==
    IF _entities_co_occur(e1.text, e2.text, context, CoOccurWindow)
    THEN Either(Found(e1, e2, TYPE_RELATIONS(e1.entity_type, e2.entity_type),
                      CoOccurConfidence),
                Found(e2, e1, TYPE_RELATIONS(e2.entity_type, e1.entity_type),
                      CoOccurConfidence))
    ELSE <<>>

\* append what was found and, if something was, add the pair key
Record(st, key, found) ==
    IF found = <<>> THEN st
    ELSE [rels |-> st.rels \o found, seen |-> st.seen \cup {key}]

\* one iteration of the inner loop with i < j; st is [rels, seen]
RelPair(e1, e2, context, st) ==
    IF pair_key(e1, e2) \in st.seen THEN st
    ELSE Record(st, pair_key(e1, e2),
                Either(PatternStage(e1, e2, context), TypeStage(e1, e2, context)))

\* the next (i, j) with i < j in the order of the two nested loops over a
\* list of n entities; i > n when there is none
NextPair(i, j, n) ==
    IF j < n THEN <<i, j + 1>>
    ELSE IF i + 2 <= n THEN <<i + 1, i + 2>>
    ELSE <<n + 1, n + 1>>

\* ------------------------------------------------------------------------
\* Entity recognition (core/nlp/entity_recognizer.py)
\* An entity is [text, entity_type, confidence], the confidence in
\* hundredths.  A stage takes and returns acc = [out, seen]: the entities
\* emitted so far and the per-call set of keys.
\* ------------------------------------------------------------------------

DATASET_PATTERNS ==
    << \* \b(ImageNet|CIFAR[-\s]?\d+|MNIST|COCO|VOC\s?\d+|SQuAD|GLUE|SuperGLUE|WikiText|Penn\s?Treebank)\b
       RxSeq(<<RxWb, RxCap(1, RxAlt(<<RxLit("ImageNet"),
           RxSeq(<<RxLit("CIFAR"), RxOpt(RxSet(Spaces \cup {"-"})),
           RxPlus(RxDigit)>>), RxLit("MNIST"), RxLit("COCO"),
           RxSeq(<<RxLit("VOC"), RxOpt(RxSp), RxPlus(RxDigit)>>),
           RxLit("SQuAD"), RxLit("GLUE"), RxLit("SuperGLUE"),
           RxLit("WikiText"), RxSeq(<<RxLit("Penn"), RxOpt(RxSp),
           RxLit("Treebank")>>)>>)), RxWb>>),
       \* \b(WMT[-\s]?\d+|SNLI|MultiNLI|SST[-\s]?\d+|MRPC|QQP|QNLI|RTE|WNLI)\b
       RxSeq(<<RxWb, RxCap(1, RxAlt(<<RxSeq(<<RxLit("WMT"),
           RxOpt(RxSet(Spaces \cup {"-"})), RxPlus(RxDigit)>>),
           RxLit("SNLI"), RxLit("MultiNLI"), RxSeq(<<RxLit("SST"),
           RxOpt(RxSet(Spaces \cup {"-"})), RxPlus(RxDigit)>>),
           RxLit("MRPC"), RxLit("QQP"), RxLit("QNLI"), RxLit("RTE"),
           RxLit("WNLI")>>)), RxWb>>),
       \* \b(MS[-\s]?COCO|Visual\s?Genome|Flickr\d+k?|LVIS|ADE\d+K?|Cityscapes)\b
       RxSeq(<<RxWb, RxCap(1, RxAlt(<<RxSeq(<<RxLit("MS"),
           RxOpt(RxSet(Spaces \cup {"-"})), RxLit("COCO")>>),
           RxSeq(<<RxLit("Visual"), RxOpt(RxSp), RxLit("Genome")>>),
           RxSeq(<<RxLit("Flickr"), RxPlus(RxDigit), RxOpt(RxLit("k"))>>),
           RxLit("LVIS"), RxSeq(<<RxLit("ADE"), RxPlus(RxDigit),
           RxOpt(RxLit("K"))>>), RxLit("Cityscapes")>>)), RxWb>>),
       \* \b(LibriSpeech|Common\s?Voice|AudioSet|VoxCeleb\d?)\b
       RxSeq(<<RxWb, RxCap(1, RxAlt(<<RxLit("LibriSpeech"),
           RxSeq(<<RxLit("Common"), RxOpt(RxSp), RxLit("Voice")>>),
           RxLit("AudioSet"), RxSeq(<<RxLit("VoxCeleb"),
           RxOpt(RxDigit)>>)>>)), RxWb>>),
       \* \b(WebText|BookCorpus|C4|The\s?Pile|RedPajama|LAION[-\s]?\d+[BMK]?)\b
       RxSeq(<<RxWb, RxCap(1, RxAlt(<<RxLit("WebText"), RxLit("BookCorpus"),
           RxLit("C4"), RxSeq(<<RxLit("The"), RxOpt(RxSp), RxLit("Pile")>>),
           RxLit("RedPajama"), RxSeq(<<RxLit("LAION"),
           RxOpt(RxSet(Spaces \cup {"-"})), RxPlus(RxDigit),
           RxOpt(RxSet({"B", "M", "K"}))>>)>>)), RxWb>>) >>

METRIC_PATTERNS ==
    << \* \b(accuracy|precision|recall|F1[-\s]?score|F[-\s]?measure|AUC[-\s]?ROC|mAP|IoU)\b
       RxSeq(<<RxWb, RxCap(1, RxAlt(<<RxLit("accuracy"), RxLit("precision"),
           RxLit("recall"), RxSeq(<<RxLit("F1"),
           RxOpt(RxSet(Spaces \cup {"-"})), RxLit("score")>>),
           RxSeq(<<RxLit("F"), RxOpt(RxSet(Spaces \cup {"-"})),
           RxLit("measure")>>), RxSeq(<<RxLit("AUC"),
           RxOpt(RxSet(Spaces \cup {"-"})), RxLit("ROC")>>), RxLit("mAP"),
           RxLit("IoU")>>)), RxWb>>),
       \* \b(BLEU[-\s]?\d*|ROUGE[-\s]?[LN12]*|METEOR|CIDEr|perplexity|PPL)\b
       RxSeq(<<RxWb, RxCap(1, RxAlt(<<RxSeq(<<RxLit("BLEU"),
           RxOpt(RxSet(Spaces \cup {"-"})), RxStar(RxDigit)>>),
           RxSeq(<<RxLit("ROUGE"), RxOpt(RxSet(Spaces \cup {"-"})),
           RxStar(RxSet({"L", "N", "1", "2"}))>>), RxLit("METEOR"),
           RxLit("CIDEr"), RxLit("perplexity"), RxLit("PPL")>>)), RxWb>>),
       \* \b(top[-\s]?\d+\s+accuracy|mean\s+average\s+precision|average\s+precision)\b
       RxSeq(<<RxWb, RxCap(1, RxAlt(<<RxSeq(<<RxLit("top"),
           RxOpt(RxSet(Spaces \cup {"-"})), RxPlus(RxDigit), RxSp1,
           RxLit("accuracy")>>), RxSeq(<<RxLit("mean"), RxSp1,
           RxLit("average"), RxSp1, RxLit("precision")>>),
           RxSeq(<<RxLit("average"), RxSp1, RxLit("precision")>>)>>)),
           RxWb>>),
       \* \b(FID|IS|inception\s+score|Frechet\s+inception\s+distance)\b
       RxSeq(<<RxWb, RxCap(1, RxAlt(<<RxLit("FID"), RxLit("IS"),
           RxSeq(<<RxLit("inception"), RxSp1, RxLit("score")>>),
           RxSeq(<<RxLit("Frechet"), RxSp1, RxLit("inception"), RxSp1,
           RxLit("distance")>>)>>)), RxWb>>),
       \* \b(MSE|RMSE|MAE|PSNR|SSIM)\b
       RxSeq(<<RxWb, RxCap(1, RxAlt(<<RxLit("MSE"), RxLit("RMSE"),
           RxLit("MAE"), RxLit("PSNR"), RxLit("SSIM")>>)), RxWb>>),
       \* \b(WER|CER|word\s+error\s+rate|character\s+error\s+rate)\b
       RxSeq(<<RxWb, RxCap(1, RxAlt(<<RxLit("WER"), RxLit("CER"),
           RxSeq(<<RxLit("word"), RxSp1, RxLit("error"), RxSp1,
           RxLit("rate")>>), RxSeq(<<RxLit("character"), RxSp1,
           RxLit("error"), RxSp1, RxLit("rate")>>)>>)), RxWb>>),
       \* \b(EM|exact\s+match)\b
       RxSeq(<<RxWb, RxCap(1, RxAlt(<<RxLit("EM"), RxSeq(<<RxLit("exact"),
           RxSp1, RxLit("match")>>)>>)), RxWb>>) >>

METHOD_PATTERNS ==
    << \* \b(Transformer|BERT|GPT[-\s]?\d*|ResNet[-\s]?\d*|VGG[-\s]?\d*|LSTM|GRU|CNN|RNN)\b
       RxSeq(<<RxWb, RxCap(1, RxAlt(<<RxLit("Transformer"), RxLit("BERT"),
           RxSeq(<<RxLit("GPT"), RxOpt(RxSet(Spaces \cup {"-"})),
           RxStar(RxDigit)>>), RxSeq(<<RxLit("ResNet"),
           RxOpt(RxSet(Spaces \cup {"-"})), RxStar(RxDigit)>>),
           RxSeq(<<RxLit("VGG"), RxOpt(RxSet(Spaces \cup {"-"})),
           RxStar(RxDigit)>>), RxLit("LSTM"), RxLit("GRU"), RxLit("CNN"),
           RxLit("RNN")>>)), RxWb>>),
       \* \b(ViT|Vision\s+Transformer|DETR|YOLO(?:v\d)?|Faster\s+R[-\s]?CNN|Mask\s+R[-\s]?CNN)\b
       RxSeq(<<RxWb, RxCap(1, RxAlt(<<RxLit("ViT"), RxSeq(<<RxLit("Vision"),
           RxSp1, RxLit("Transformer")>>), RxLit("DETR"),
           RxSeq(<<RxLit("YOLO"), RxOpt(RxSeq(<<RxLit("v"), RxDigit>>))>>),
           RxSeq(<<RxLit("Faster"), RxSp1, RxLit("R"),
           RxOpt(RxSet(Spaces \cup {"-"})), RxLit("CNN")>>),
           RxSeq(<<RxLit("Mask"), RxSp1, RxLit("R"),
           RxOpt(RxSet(Spaces \cup {"-"})), RxLit("CNN")>>)>>)), RxWb>>),
       \* \b(U[-\s]?Net|GAN|VAE|Diffusion\s+Model|Stable\s+Diffusion|DALL[-\s]?E)\b
       RxSeq(<<RxWb, RxCap(1, RxAlt(<<RxSeq(<<RxLit("U"),
           RxOpt(RxSet(Spaces \cup {"-"})), RxLit("Net")>>), RxLit("GAN"),
           RxLit("VAE"), RxSeq(<<RxLit("Diffusion"), RxSp1,
           RxLit("Model")>>), RxSeq(<<RxLit("Stable"), RxSp1,
           RxLit("Diffusion")>>), RxSeq(<<RxLit("DALL"),
           RxOpt(RxSet(Spaces \cup {"-"})), RxLit("E")>>)>>)), RxWb>>),
       \* \b(T5|BART|XLNet|RoBERTa|ALBERT|DeBERTa|ELECTRA|LLaMA|Mistral|Qwen)\b
       RxSeq(<<RxWb, RxCap(1, RxAlt(<<RxLit("T5"), RxLit("BART"),
           RxLit("XLNet"), RxLit("RoBERTa"), RxLit("ALBERT"),
           RxLit("DeBERTa"), RxLit("ELECTRA"), RxLit("LLaMA"),
           RxLit("Mistral"), RxLit("Qwen")>>)), RxWb>>),
       \* \b(attention\s+mechanism|self[-\s]?attention|cross[-\s]?attention|multi[-\s]?head\s+attention)\b
       RxSeq(<<RxWb, RxCap(1, RxAlt(<<RxSeq(<<RxLit("attention"), RxSp1,
           RxLit("mechanism")>>), RxSeq(<<RxLit("self"),
           RxOpt(RxSet(Spaces \cup {"-"})), RxLit("attention")>>),
           RxSeq(<<RxLit("cross"), RxOpt(RxSet(Spaces \cup {"-"})),
           RxLit("attention")>>), RxSeq(<<RxLit("multi"),
           RxOpt(RxSet(Spaces \cup {"-"})), RxLit("head"), RxSp1,
           RxLit("attention")>>)>>)), RxWb>>),
       \* \b(dropout|batch\s+normalization|layer\s+normalization|residual\s+connection)\b
       RxSeq(<<RxWb, RxCap(1, RxAlt(<<RxLit("dropout"),
           RxSeq(<<RxLit("batch"), RxSp1, RxLit("normalization")>>),
           RxSeq(<<RxLit("layer"), RxSp1, RxLit("normalization")>>),
           RxSeq(<<RxLit("residual"), RxSp1, RxLit("connection")>>)>>)),
           RxWb>>),
       \* \b(fine[-\s]?tuning|pre[-\s]?training|transfer\s+learning|few[-\s]?shot|zero[-\s]?shot)\b
       RxSeq(<<RxWb, RxCap(1, RxAlt(<<RxSeq(<<RxLit("fine"),
           RxOpt(RxSet(Spaces \cup {"-"})), RxLit("tuning")>>),
           RxSeq(<<RxLit("pre"), RxOpt(RxSet(Spaces \cup {"-"})),
           RxLit("training")>>), RxSeq(<<RxLit("transfer"), RxSp1,
           RxLit("learning")>>), RxSeq(<<RxLit("few"),
           RxOpt(RxSet(Spaces \cup {"-"})), RxLit("shot")>>),
           RxSeq(<<RxLit("zero"), RxOpt(RxSet(Spaces \cup {"-"})),
           RxLit("shot")>>)>>)), RxWb>>),
       \* \b(reinforcement\s+learning|supervised\s+learning|unsupervised\s+learning|self[-\s]?supervised)\b
       RxSeq(<<RxWb, RxCap(1, RxAlt(<<RxSeq(<<RxLit("reinforcement"), RxSp1,
           RxLit("learning")>>), RxSeq(<<RxLit("supervised"), RxSp1,
           RxLit("learning")>>), RxSeq(<<RxLit("unsupervised"), RxSp1,
           RxLit("learning")>>), RxSeq(<<RxLit("self"),
           RxOpt(RxSet(Spaces \cup {"-"})), RxLit("supervised")>>)>>)),
           RxWb>>),
       \* \b(contrastive\s+learning|knowledge\s+distillation|data\s+augmentation)\b
       RxSeq(<<RxWb, RxCap(1, RxAlt(<<RxSeq(<<RxLit("contrastive"), RxSp1,
           RxLit("learning")>>), RxSeq(<<RxLit("knowledge"), RxSp1,
           RxLit("distillation")>>), RxSeq(<<RxLit("data"), RxSp1,
           RxLit("augmentation")>>)>>)), RxWb>>),
       \* \b(gradient\s+descent|Adam|SGD|AdamW)\b
       RxSeq(<<RxWb, RxCap(1, RxAlt(<<RxSeq(<<RxLit("gradient"), RxSp1,
           RxLit("descent")>>), RxLit("Adam"), RxLit("SGD"),
           RxLit("AdamW")>>)), RxWb>>) >>

TOOL_PATTERNS ==
    << \* \b(PyTorch|TensorFlow|JAX|Keras|Hugging\s?Face|scikit[-\s]?learn|spaCy|NLTK)\b
       RxSeq(<<RxWb, RxCap(1, RxAlt(<<RxLit("PyTorch"), RxLit("TensorFlow"),
           RxLit("JAX"), RxLit("Keras"), RxSeq(<<RxLit("Hugging"),
           RxOpt(RxSp), RxLit("Face")>>), RxSeq(<<RxLit("scikit"),
           RxOpt(RxSet(Spaces \cup {"-"})), RxLit("learn")>>),
           RxLit("spaCy"), RxLit("NLTK")>>)), RxWb>>),
       \* \b(NumPy|SciPy|Pandas|OpenCV|CUDA|cuDNN)\b
       RxSeq(<<RxWb, RxCap(1, RxAlt(<<RxLit("NumPy"), RxLit("SciPy"),
           RxLit("Pandas"), RxLit("OpenCV"), RxLit("CUDA"),
           RxLit("cuDNN")>>)), RxWb>>),
       \* \b(NVIDIA\s+[A-Z]\d+|TPU|A100|V100|H100)\b
       RxSeq(<<RxWb, RxCap(1, RxAlt(<<RxSeq(<<RxLit("NVIDIA"), RxSp1,
           RxSet(Uppers), RxPlus(RxDigit)>>), RxLit("TPU"), RxLit("A100"),
           RxLit("V100"), RxLit("H100")>>)), RxWb>>) >>

THEORY_PATTERNS ==
    << \* \b(Bayes(?:ian)?\s+(?:theorem|inference|optimization|network))\b
       RxSeq(<<RxWb, RxCap(1, RxSeq(<<RxLit("Bayes"), RxOpt(RxLit("ian")),
           RxSp1, RxAlt(<<RxLit("theorem"), RxLit("inference"),
           RxLit("optimization"), RxLit("network")>>)>>)), RxWb>>),
       \* \b(Markov\s+(?:chain|decision\s+process|random\s+field))\b
       RxSeq(<<RxWb, RxCap(1, RxSeq(<<RxLit("Markov"), RxSp1,
           RxAlt(<<RxLit("chain"), RxSeq(<<RxLit("decision"), RxSp1,
           RxLit("process")>>), RxSeq(<<RxLit("random"), RxSp1,
           RxLit("field")>>)>>)>>)), RxWb>>),
       \* \b(KL[-\s]?divergence|mutual\s+information|information\s+entropy)\b
       RxSeq(<<RxWb, RxCap(1, RxAlt(<<RxSeq(<<RxLit("KL"),
           RxOpt(RxSet(Spaces \cup {"-"})), RxLit("divergence")>>),
           RxSeq(<<RxLit("mutual"), RxSp1, RxLit("information")>>),
           RxSeq(<<RxLit("information"), RxSp1, RxLit("entropy")>>)>>)),
           RxWb>>),
       \* \b(optimal\s+transport|Wasserstein\s+distance|variational\s+inference)\b
       RxSeq(<<RxWb, RxCap(1, RxAlt(<<RxSeq(<<RxLit("optimal"), RxSp1,
           RxLit("transport")>>), RxSeq(<<RxLit("Wasserstein"), RxSp1,
           RxLit("distance")>>), RxSeq(<<RxLit("variational"), RxSp1,
           RxLit("inference")>>)>>)), RxWb>>) >>

\* \b([A-Z][\w-]*(?:\s+[A-Z][\w-]*)*)\s+(?:dataset|benchmark|corpus|corpora)\b
DATASET_GENERIC ==
    RxSeq(<<RxWb, RxCap(1, RxSeq(<<RxSet(Uppers), RxStar(RxWordOr({"-"})),
        RxStar(RxSeq(<<RxSp1, RxSet(Uppers), RxStar(RxWordOr({"-"}))>>))>>)),
        RxSp1, RxAlt(<<RxLit("dataset"), RxLit("benchmark"), RxLit("corpus"),
        RxLit("corpora")>>), RxWb>>)

problem_patterns ==
    << \* (?:we\s+(?:address|tackle|study|investigate|focus\s+on|propose\s+a\s+solution\s+(?:to|for)))\s+(?:the\s+)?(?:problem\s+of\s+)?(.{10,80}?)(?:\.|,|\band\b)
       RxSeq(<<RxLit("we"), RxSp1, RxAlt(<<RxLit("address"), RxLit("tackle"),
           RxLit("study"), RxLit("investigate"), RxSeq(<<RxLit("focus"),
           RxSp1, RxLit("on")>>), RxSeq(<<RxLit("propose"), RxSp1,
           RxLit("a"), RxSp1, RxLit("solution"), RxSp1, RxAlt(<<RxLit("to"),
           RxLit("for")>>)>>)>>), RxSp1, RxOpt(RxSeq(<<RxLit("the"),
           RxSp1>>)), RxOpt(RxSeq(<<RxLit("problem"), RxSp1, RxLit("of"),
           RxSp1>>)), RxCap(1, RxLazy(RxAny, 10, 80)), RxAlt(<<RxLit("."),
           RxLit(","), RxSeq(<<RxWb, RxLit("and"), RxWb>>)>>)>>),
       \* (?:the\s+(?:problem|task|challenge)\s+of)\s+(.{10,80}?)(?:\.|,)
       RxSeq(<<RxLit("the"), RxSp1, RxAlt(<<RxLit("problem"), RxLit("task"),
           RxLit("challenge")>>), RxSp1, RxLit("of"), RxSp1, RxCap(1,
           RxLazy(RxAny, 10, 80)), RxSet({".", ","})>>),
       \* (?:this\s+(?:paper|work|study)\s+(?:addresses|tackles|focuses\s+on|investigates))\s+(.{10,80}?)(?:\.|,)
       RxSeq(<<RxLit("this"), RxSp1, RxAlt(<<RxLit("paper"), RxLit("work"),
           RxLit("study")>>), RxSp1, RxAlt(<<RxLit("addresses"),
           RxLit("tackles"), RxSeq(<<RxLit("focuses"), RxSp1, RxLit("on")>>),
           RxLit("investigates")>>), RxSp1, RxCap(1, RxLazy(RxAny, 10, 80)),
           RxSet({".", ","})>>) >>

baseline_patterns ==
    << \* (?:compared?\s+(?:with|to|against)|baseline[s]?(?:\s+(?:include|are))?)[:\s]+(.{5,200}?)(?:\.|$)
       RxSeq(<<RxAlt(<<RxSeq(<<RxLit("compare"), RxOpt(RxLit("d")), RxSp1,
           RxAlt(<<RxLit("with"), RxLit("to"), RxLit("against")>>)>>),
           RxSeq(<<RxLit("baseline"), RxOpt(RxLit("s")), RxOpt(RxSeq(<<RxSp1,
           RxAlt(<<RxLit("include"), RxLit("are")>>)>>))>>)>>),
           RxPlus(RxSet(Spaces \cup {":"})), RxCap(1, RxLazy(RxAny, 5, 200)),
           RxAlt(<<RxLit("."), RxEol>>)>>),
       \* (?:outperform[s]?|surpass(?:es)?|exceed[s]?)\s+(.{5,80}?)(?:\s+(?:by|on|in|with)\b|\.|,)
       RxSeq(<<RxAlt(<<RxSeq(<<RxLit("outperform"), RxOpt(RxLit("s"))>>),
           RxSeq(<<RxLit("surpass"), RxOpt(RxLit("es"))>>),
           RxSeq(<<RxLit("exceed"), RxOpt(RxLit("s"))>>)>>), RxSp1, RxCap(1,
           RxLazy(RxAny, 5, 80)), RxAlt(<<RxSeq(<<RxSp1, RxAlt(<<RxLit("by"),
           RxLit("on"), RxLit("in"), RxLit("with")>>), RxWb>>), RxLit("."),
           RxLit(",")>>)>>) >>

\* ,\s*|\s+and\s+
baseline_separator ==
    RxAlt(<<RxSeq(<<RxLit(","), RxSp0>>), RxSeq(<<RxSp1, RxLit("and"),
        RxSp1>>)>>)


\* an emitter that does not consult seen
Emit_unchecked(acc, text, key, ok, entity_type, confidence) ==
    IF ok
    THEN [out  |-> Append(acc.out, [text |-> text, entity_type |-> entity_type,
                                    confidence |-> confidence]),
          seen |-> acc.seen \cup {key}]
    ELSE acc

\* if key not in seen and ok: seen.add(key); results.append({...})
Emit(acc, text, key, ok, entity_type, confidence) ==
    IF key \notin acc.seen /\ ok
    THEN [out  |-> Append(acc.out, [text |-> text, entity_type |-> entity_type,
                                    confidence |-> confidence]),
          seen |-> acc.seen \cup {key}]
    ELSE acc

\* m.group(1) if m.lastindex else m.group(0)
Matched(text, m) ==
    IF m.c[1] # <<0, 0>> THEN Group(text, m, 1) ELSE Whole(text, m)

\* the body of the loop over the matches of one library pattern
MatchOne(acc, matched, entity_type) ==
    Emit(acc, Strip(matched), Strip(Lower(matched)),
         Len(Strip(Lower(matched))) > 1, entity_type, 80)

RECURSIVE MatchEach(_, _, _, _, _)
MatchEach(acc, text, ms, k, entity_type) ==
    IF k > Len(ms) THEN acc
    ELSE MatchEach(MatchOne(acc, Matched(text, ms[k]), entity_type),
                   text, ms, k + 1, entity_type)

RECURSIVE MatchFrom(_, _, _, _, _)
MatchFrom(acc, text, patterns, p, entity_type) ==
    IF p > Len(patterns) THEN acc
    ELSE MatchFrom(MatchEach(acc, text,
                             RxFindIter(patterns[p], text, 1, Flags(TRUE, FALSE)),
                             1, entity_type),
                   text, patterns, p + 1, entity_type)

\* entities.extend(_match_patterns(text, patterns, entity_type, seen))
_match_patterns(acc, text, patterns, entity_type) ==
    MatchFrom(acc, text, patterns, 1, entity_type)

\* the body of the loop over DATASET_GENERIC.finditer(text)
GenericOne(acc, name) ==
    Emit(acc, name, Lower(name), Len(name) > 2, "dataset", 65)

RECURSIVE GenericEach(_, _, _, _)
GenericEach(acc, text, ms, k) ==
    IF k > Len(ms) THEN acc
    ELSE GenericEach(GenericOne(acc, Strip(Group(text, ms[k], 1))), text, ms, k + 1)

\* the body of the loop over the matches of one problem pattern
ProblemOne(acc, matched) ==
    Emit(acc, matched, Lower(matched), 10 < Len(matched) /\ Len(matched) < 200,
         "research_problem", 60)

RECURSIVE ProblemEach(_, _, _, _)
ProblemEach(acc, text, ms, k) ==
    IF k > Len(ms) THEN acc
    ELSE ProblemEach(ProblemOne(acc, Strip(Group(text, ms[k], 1))), text, ms, k + 1)

RECURSIVE ProblemFrom(_, _, _)
ProblemFrom(acc, text, p) ==
    IF p > Len(problem_patterns) THEN acc
    ELSE ProblemFrom(ProblemEach(acc, text,
                                 RxFindIter(problem_patterns[p], text, 1,
                                            Flags(TRUE, FALSE)), 1),
                     text, p + 1)

\* entities.extend(_extract_research_problems(text, seen))
_extract_research_problems(acc, text) == ProblemFrom(acc, text, 1)

\* re.split: the pieces of s between the matches ms, from match k on, the
\* current piece starting at position from
RECURSIVE SplitAt(_, _, _, _)
SplitAt(s, ms, k, from) ==
    IF k > Len(ms) THEN <<SubSeq(s, from, Len(s))>>
    ELSE <<SubSeq(s, from, ms[k].b - 1)>> \o SplitAt(s, ms, k + 1, ms[k].e)

\* re.split(r",\s*|\s+and\s+", raw)
Split(raw) ==
    SplitAt(raw, RxFindIter(baseline_separator, raw, 1, Flags(FALSE, FALSE)), 1, 1)

\* str.rstrip(".")
RECURSIVE RStripDots(_)
RStripDots(s) ==
    IF s # <<>> /\ s[Len(s)] = "." THEN RStripDots(SubSeq(s, 1, Len(s) - 1)) ELSE s

\* the body of the loop over the parts of one baseline match
BaselineOne(acc, part) ==
    Emit(acc, part, Lower(part),
         2 < Len(part) /\ Len(part) < 80 /\ part[1] \notin Lowers,
         "baseline", 60)

RECURSIVE BaselineParts(_, _, _)
BaselineParts(acc, parts, k) ==
    IF k > Len(parts) THEN acc
    ELSE BaselineParts(BaselineOne(acc, RStripDots(Strip(parts[k]))), parts, k + 1)

RECURSIVE BaselineEach(_, _, _, _)
BaselineEach(acc, text, ms, k) ==
    IF k > Len(ms) THEN acc
    ELSE BaselineEach(BaselineParts(acc, Split(Strip(Group(text, ms[k], 1))), 1),
                      text, ms, k + 1)

RECURSIVE BaselineFrom(_, _, _)
BaselineFrom(acc, text, p) ==
    IF p > Len(baseline_patterns) THEN acc
    ELSE BaselineFrom(BaselineEach(acc, text,
                                   RxFindIter(baseline_patterns[p], text, 1,
                                              Flags(TRUE, FALSE)), 1),
                      text, p + 1)

\* entities.extend(_extract_baselines(text, seen))
_extract_baselines(acc, text) == BaselineFrom(acc, text, 1)

\* the curated libraries, the methods matched first
Libraries_methods_first ==
    << [patterns |-> METHOD_PATTERNS,  entity_type |-> "method"],
       [patterns |-> DATASET_PATTERNS, entity_type |-> "dataset"],
       [patterns |-> METRIC_PATTERNS,  entity_type |-> "metric"],
       [patterns |-> TOOL_PATTERNS,    entity_type |-> "tool"],
       [patterns |-> THEORY_PATTERNS,  entity_type |-> "theory"] >>

\* the curated libraries in the order extract_entities matches them
Libraries ==
    << [patterns |-> DATASET_PATTERNS, entity_type |-> "dataset"],
       [patterns |-> METRIC_PATTERNS,  entity_type |-> "metric"],
       [patterns |-> METHOD_PATTERNS,  entity_type |-> "method"],
       [patterns |-> TOOL_PATTERNS,    entity_type |-> "tool"],
       [patterns |-> THEORY_PATTERNS,  entity_type |-> "theory"] >>

\* the whole content
Head12000_whole(content) == content

\* content[:12000]
Head12000(content) ==
    SubSeq(content, 1, IF Len(content) < 12000 THEN Len(content) ELSE 12000)

\* None given as content: no str, kept apart from every str by a character
\* no text holds
None == <<"None">>

\* not content
Not(content) == content \in {None, <<>>}

\* ------------------------------------------------------------------------
\* core/pdf_parser/pymupdf_parser.py and pdfplumber_parser.py. A PDF file is
\* described by what the two libraries read from it: whether fitz opens
\* it, per page the text, the blocks of spans and the tables fitz finds,
\* and the text pdfplumber extracts from each page.
\* ------------------------------------------------------------------------

\* TextBlock: the fields analyze_layout reads (bbox[1] as y)
TextBlock(txt, font_size, is_bold, page_num, y) ==
    [text |-> txt, font_size |-> font_size, is_bold |-> is_bold,
     page_num |-> page_num, y |-> y]

ParsedPage(page_num, blocks, raw_text) ==
    [page_num |-> page_num, blocks |-> blocks, raw_text |-> raw_text]

ParsedDocument(pages, page_count) == [pages |-> pages, page_count |-> page_count]

\* sub in s
Contains(sub, s) ==
    \E i \in 1..(Len(s) - Len(sub) + 1) : SubSeq(s, i, i + Len(sub) - 1) = sub

DefaultFontSize == 1200

\* the spans of the text blocks of a page, image blocks skipped
RECURSIVE SpansOf(_, _)
SpansOf(blocks, b) ==
    IF b > Len(blocks) THEN <<>>
    ELSE (IF blocks[b].type # 0 THEN <<>> ELSE blocks[b].spans)
            \o SpansOf(blocks, b + 1)

\* the TextBlock of a span, the text stripped
BlockOf(span, page_num) ==
    TextBlock(Strip(span.text), span.size,
              Contains("Bold", span.font) \/ Contains("bold", span.font),
              page_num, span.y)

\* the blocks of the spans that are not blank
RECURSIVE BlocksOf(_, _, _)
BlocksOf(spans, page_num, k) ==
    IF k > Len(spans) THEN <<>>
    ELSE (IF Strip(spans[k].text) = <<>> THEN <<>>
          ELSE <<BlockOf(spans[k], page_num)>>)
            \o BlocksOf(spans, page_num, k + 1)

Returned(value) == [raised |-> FALSE, value |-> value]

Raised(error) == [raised |-> TRUE, error |-> error]

\* the message of the exception of fitz.open
OpenError == S("cannot open broken document")

parse_pdf(file) ==
    IF ~file.opens THEN Raised(OpenError)
    ELSE Returned(ParsedDocument(
            [p \in 1..Len(file.pages) |->
                ParsedPage(p - 1,
                           BlocksOf(SpansOf(file.pages[p].blocks, 1), p - 1, 1),
                           file.pages[p].text)],
            Len(file.pages)))

\* one block per line of the page text that is not blank
RECURSIVE LinesAsBlocks(_, _, _)
LinesAsBlocks(lines, page_num, k) ==
    IF k > Len(lines) THEN <<>>
    ELSE (IF Strip(lines[k]) = <<>> THEN <<>>
          ELSE <<TextBlock(Strip(lines[k]), DefaultFontSize, FALSE, page_num, 0)>>)
            \o LinesAsBlocks(lines, page_num, k + 1)

\* pdfplumber_parser.parse_pdf_fallback: font size 12.0, nothing bold
parse_pdf_fallback(file) ==
    ParsedDocument(
        [p \in 1..Len(file.plumber) |->
            ParsedPage(p - 1,
                       LinesAsBlocks(SplitLines(file.plumber[p], 1), p - 1, 1),
                       file.plumber[p])],
        Len(file.plumber))

\* ------------------------------------------------------------------------
\* core/pdf_parser/layout_analyzer.py. Font sizes are in hundredths of a
\* point, y coordinates in points.
\* ------------------------------------------------------------------------

SECTION_PATTERNS ==
    << [section_type |-> "abstract", patterns |->
         << \* ^abstract\s*$
            RxSeq(<<RxBol, RxLit("abstract"), RxSp0, RxEol>>),
            \* ^\u6458\s*\u8981\s*$
            RxSeq(<<RxBol, RxChars(<<"U6458">>), RxSp0, RxChars(<<"U8981">>),
                RxSp0, RxEol>>),
            \* ^summary\s*$
            RxSeq(<<RxBol, RxLit("summary"), RxSp0, RxEol>>) >>],
       [section_type |-> "introduction", patterns |->
         << \* ^(?:[\d.]+\s*)?introduction\s*$
            RxSeq(<<RxBol, RxOpt(RxSeq(<<RxPlus(RxSet(Digits \cup {"."})),
                RxSp0>>)), RxLit("introduction"), RxSp0, RxEol>>),
            \* ^(?:[\d.]+\s*)?\u5f15\s*\u8a00\s*$
            RxSeq(<<RxBol, RxOpt(RxSeq(<<RxPlus(RxSet(Digits \cup {"."})),
                RxSp0>>)), RxChars(<<"U5F15">>), RxSp0, RxChars(<<"U8A00">>),
                RxSp0, RxEol>>),
            \* ^(?:[\d.]+\s*)?\u7eea\s*\u8bba\s*$
            RxSeq(<<RxBol, RxOpt(RxSeq(<<RxPlus(RxSet(Digits \cup {"."})),
                RxSp0>>)), RxChars(<<"U7EEA">>), RxSp0, RxChars(<<"U8BBA">>),
                RxSp0, RxEol>>),
            \* ^(?:[\d.]+\s*)?overview\s*$
            RxSeq(<<RxBol, RxOpt(RxSeq(<<RxPlus(RxSet(Digits \cup {"."})),
                RxSp0>>)), RxLit("overview"), RxSp0, RxEol>>) >>],
       [section_type |-> "related_work", patterns |->
         << \* ^(?:[\d.]+\s*)?related\s+work[s]?\s*$
            RxSeq(<<RxBol, RxOpt(RxSeq(<<RxPlus(RxSet(Digits \cup {"."})),
                RxSp0>>)), RxLit("related"), RxSp1, RxLit("work"),
                RxOpt(RxLit("s")), RxSp0, RxEol>>),
            \* ^(?:[\d.]+\s*)?background\s*$
            RxSeq(<<RxBol, RxOpt(RxSeq(<<RxPlus(RxSet(Digits \cup {"."})),
                RxSp0>>)), RxLit("background"), RxSp0, RxEol>>),
            \* ^(?:[\d.]+\s*)?background\s+and\s+related\s+work\s*$
            RxSeq(<<RxBol, RxOpt(RxSeq(<<RxPlus(RxSet(Digits \cup {"."})),
                RxSp0>>)), RxLit("background"), RxSp1, RxLit("and"), RxSp1,
                RxLit("related"), RxSp1, RxLit("work"), RxSp0, RxEol>>),
            \* ^(?:[\d.]+\s*)?literature\s+review\s*$
            RxSeq(<<RxBol, RxOpt(RxSeq(<<RxPlus(RxSet(Digits \cup {"."})),
                RxSp0>>)), RxLit("literature"), RxSp1, RxLit("review"),
                RxSp0, RxEol>>),
            \* ^(?:[\d.]+\s*)?previous\s+work\s*$
            RxSeq(<<RxBol, RxOpt(RxSeq(<<RxPlus(RxSet(Digits \cup {"."})),
                RxSp0>>)), RxLit("previous"), RxSp1, RxLit("work"), RxSp0,
                RxEol>>),
            \* ^(?:[\d.]+\s*)?prior\s+work\s*$
            RxSeq(<<RxBol, RxOpt(RxSeq(<<RxPlus(RxSet(Digits \cup {"."})),
                RxSp0>>)), RxLit("prior"), RxSp1, RxLit("work"), RxSp0,
                RxEol>>),
            \* ^(?:[\d.]+\s*)?\u76f8\u5173\u5de5\u4f5c\s*$
            RxSeq(<<RxBol, RxOpt(RxSeq(<<RxPlus(RxSet(Digits \cup {"."})),
                RxSp0>>)), RxChars(<<"U76F8", "U5173", "U5DE5", "U4F5C">>),
                RxSp0, RxEol>>),
            \* ^(?:[\d.]+\s*)?\u7814\u7a76\u80cc\u666f\s*$
            RxSeq(<<RxBol, RxOpt(RxSeq(<<RxPlus(RxSet(Digits \cup {"."})),
                RxSp0>>)), RxChars(<<"U7814", "U7A76", "U80CC", "U666F">>),
                RxSp0, RxEol>>) >>],
       [section_type |-> "methods", patterns |->
         << \* ^(?:[\d.]+\s*)?method(?:s|ology)?\s*$
            RxSeq(<<RxBol, RxOpt(RxSeq(<<RxPlus(RxSet(Digits \cup {"."})),
                RxSp0>>)), RxLit("method"), RxOpt(RxAlt(<<RxLit("s"),
                RxLit("ology")>>)), RxSp0, RxEol>>),
            \* ^(?:[\d.]+\s*)?approach\s*$
            RxSeq(<<RxBol, RxOpt(RxSeq(<<RxPlus(RxSet(Digits \cup {"."})),
                RxSp0>>)), RxLit("approach"), RxSp0, RxEol>>),
            \* ^(?:[\d.]+\s*)?(?:proposed\s+)?(?:method|framework|model|system|architecture)\s*$
            RxSeq(<<RxBol, RxOpt(RxSeq(<<RxPlus(RxSet(Digits \cup {"."})),
                RxSp0>>)), RxOpt(RxSeq(<<RxLit("proposed"), RxSp1>>)),
                RxAlt(<<RxLit("method"), RxLit("framework"), RxLit("model"),
                RxLit("system"), RxLit("architecture")>>), RxSp0, RxEol>>),
            \* ^(?:[\d.]+\s*)?(?:our\s+)?(?:method|approach|framework|model)\s*$
            RxSeq(<<RxBol, RxOpt(RxSeq(<<RxPlus(RxSet(Digits \cup {"."})),
                RxSp0>>)), RxOpt(RxSeq(<<RxLit("our"), RxSp1>>)),
                RxAlt(<<RxLit("method"), RxLit("approach"),
                RxLit("framework"), RxLit("model")>>), RxSp0, RxEol>>),
            \* ^(?:[\d.]+\s*)?technical\s+approach\s*$
            RxSeq(<<RxBol, RxOpt(RxSeq(<<RxPlus(RxSet(Digits \cup {"."})),
                RxSp0>>)), RxLit("technical"), RxSp1, RxLit("approach"),
                RxSp0, RxEol>>),
            \* ^(?:[\d.]+\s*)?problem\s+(?:formulation|definition|setup)\s*$
            RxSeq(<<RxBol, RxOpt(RxSeq(<<RxPlus(RxSet(Digits \cup {"."})),
                RxSp0>>)), RxLit("problem"), RxSp1,
                RxAlt(<<RxLit("formulation"), RxLit("definition"),
                RxLit("setup")>>), RxSp0, RxEol>>),
            \* ^(?:[\d.]+\s*)?\u65b9\u6cd5\s*$
            RxSeq(<<RxBol, RxOpt(RxSeq(<<RxPlus(RxSet(Digits \cup {"."})),
                RxSp0>>)), RxChars(<<"U65B9", "U6CD5">>), RxSp0, RxEol>>),
            \* ^(?:[\d.]+\s*)?\u6a21\u578b\s*$
            RxSeq(<<RxBol, RxOpt(RxSeq(<<RxPlus(RxSet(Digits \cup {"."})),
                RxSp0>>)), RxChars(<<"U6A21", "U578B">>), RxSp0, RxEol>>) >>],
       [section_type |-> "experiments", patterns |->
         << \* ^(?:[\d.]+\s*)?experiments?\s*$
            RxSeq(<<RxBol, RxOpt(RxSeq(<<RxPlus(RxSet(Digits \cup {"."})),
                RxSp0>>)), RxLit("experiment"), RxOpt(RxLit("s")), RxSp0,
                RxEol>>),
            \* ^(?:[\d.]+\s*)?experimental\s+(?:setup|results?|settings?|evaluation)\s*$
            RxSeq(<<RxBol, RxOpt(RxSeq(<<RxPlus(RxSet(Digits \cup {"."})),
                RxSp0>>)), RxLit("experimental"), RxSp1,
                RxAlt(<<RxLit("setup"), RxSeq(<<RxLit("result"),
                RxOpt(RxLit("s"))>>), RxSeq(<<RxLit("setting"),
                RxOpt(RxLit("s"))>>), RxLit("evaluation")>>), RxSp0, RxEol>>),
            \* ^(?:[\d.]+\s*)?evaluation\s*$
            RxSeq(<<RxBol, RxOpt(RxSeq(<<RxPlus(RxSet(Digits \cup {"."})),
                RxSp0>>)), RxLit("evaluation"), RxSp0, RxEol>>),
            \* ^(?:[\d.]+\s*)?empirical\s+(?:study|evaluation|results?)\s*$
            RxSeq(<<RxBol, RxOpt(RxSeq(<<RxPlus(RxSet(Digits \cup {"."})),
                RxSp0>>)), RxLit("empirical"), RxSp1, RxAlt(<<RxLit("study"),
                RxLit("evaluation"), RxSeq(<<RxLit("result"),
                RxOpt(RxLit("s"))>>)>>), RxSp0, RxEol>>),
            \* ^(?:[\d.]+\s*)?\u5b9e\u9a8c\s*$
            RxSeq(<<RxBol, RxOpt(RxSeq(<<RxPlus(RxSet(Digits \cup {"."})),
                RxSp0>>)), RxChars(<<"U5B9E", "U9A8C">>), RxSp0, RxEol>>),
            \* ^(?:[\d.]+\s*)?\u5b9e\u9a8c\u8bbe\u7f6e\s*$
            RxSeq(<<RxBol, RxOpt(RxSeq(<<RxPlus(RxSet(Digits \cup {"."})),
                RxSp0>>)), RxChars(<<"U5B9E", "U9A8C", "U8BBE", "U7F6E">>),
                RxSp0, RxEol>>) >>],
       [section_type |-> "results", patterns |->
         << \* ^(?:[\d.]+\s*)?results?\s*$
            RxSeq(<<RxBol, RxOpt(RxSeq(<<RxPlus(RxSet(Digits \cup {"."})),
                RxSp0>>)), RxLit("result"), RxOpt(RxLit("s")), RxSp0,
                RxEol>>),
            \* ^(?:[\d.]+\s*)?results?\s+and\s+(?:discussion|analysis)\s*$
            RxSeq(<<RxBol, RxOpt(RxSeq(<<RxPlus(RxSet(Digits \cup {"."})),
                RxSp0>>)), RxLit("result"), RxOpt(RxLit("s")), RxSp1,
                RxLit("and"), RxSp1, RxAlt(<<RxLit("discussion"),
                RxLit("analysis")>>), RxSp0, RxEol>>),
            \* ^(?:[\d.]+\s*)?main\s+results?\s*$
            RxSeq(<<RxBol, RxOpt(RxSeq(<<RxPlus(RxSet(Digits \cup {"."})),
                RxSp0>>)), RxLit("main"), RxSp1, RxLit("result"),
                RxOpt(RxLit("s")), RxSp0, RxEol>>),
            \* ^(?:[\d.]+\s*)?findings?\s*$
            RxSeq(<<RxBol, RxOpt(RxSeq(<<RxPlus(RxSet(Digits \cup {"."})),
                RxSp0>>)), RxLit("finding"), RxOpt(RxLit("s")), RxSp0,
                RxEol>>),
            \* ^(?:[\d.]+\s*)?\u7ed3\u679c\s*$
            RxSeq(<<RxBol, RxOpt(RxSeq(<<RxPlus(RxSet(Digits \cup {"."})),
                RxSp0>>)), RxChars(<<"U7ED3", "U679C">>), RxSp0, RxEol>>),
            \* ^(?:[\d.]+\s*)?\u5b9e\u9a8c\u7ed3\u679c\s*$
            RxSeq(<<RxBol, RxOpt(RxSeq(<<RxPlus(RxSet(Digits \cup {"."})),
                RxSp0>>)), RxChars(<<"U5B9E", "U9A8C", "U7ED3", "U679C">>),
                RxSp0, RxEol>>) >>],
       [section_type |-> "discussion", patterns |->
         << \* ^(?:[\d.]+\s*)?discussion\s*$
            RxSeq(<<RxBol, RxOpt(RxSeq(<<RxPlus(RxSet(Digits \cup {"."})),
                RxSp0>>)), RxLit("discussion"), RxSp0, RxEol>>),
            \* ^(?:[\d.]+\s*)?analysis\s*$
            RxSeq(<<RxBol, RxOpt(RxSeq(<<RxPlus(RxSet(Digits \cup {"."})),
                RxSp0>>)), RxLit("analysis"), RxSp0, RxEol>>),
            \* ^(?:[\d.]+\s*)?discussion\s+and\s+(?:analysis|future\s+work)\s*$
            RxSeq(<<RxBol, RxOpt(RxSeq(<<RxPlus(RxSet(Digits \cup {"."})),
                RxSp0>>)), RxLit("discussion"), RxSp1, RxLit("and"), RxSp1,
                RxAlt(<<RxLit("analysis"), RxSeq(<<RxLit("future"), RxSp1,
                RxLit("work")>>)>>), RxSp0, RxEol>>),
            \* ^(?:[\d.]+\s*)?ablation\s+stud(?:y|ies)\s*$
            RxSeq(<<RxBol, RxOpt(RxSeq(<<RxPlus(RxSet(Digits \cup {"."})),
                RxSp0>>)), RxLit("ablation"), RxSp1, RxLit("stud"),
                RxAlt(<<RxLit("y"), RxLit("ies")>>), RxSp0, RxEol>>),
            \* ^(?:[\d.]+\s*)?\u8ba8\u8bba\s*$
            RxSeq(<<RxBol, RxOpt(RxSeq(<<RxPlus(RxSet(Digits \cup {"."})),
                RxSp0>>)), RxChars(<<"U8BA8", "U8BBA">>), RxSp0, RxEol>>),
            \* ^(?:[\d.]+\s*)?\u5206\u6790\s*$
            RxSeq(<<RxBol, RxOpt(RxSeq(<<RxPlus(RxSet(Digits \cup {"."})),
                RxSp0>>)), RxChars(<<"U5206", "U6790">>), RxSp0, RxEol>>) >>],
       [section_type |-> "conclusion", patterns |->
         << \* ^(?:[\d.]+\s*)?conclusions?\s*$
            RxSeq(<<RxBol, RxOpt(RxSeq(<<RxPlus(RxSet(Digits \cup {"."})),
                RxSp0>>)), RxLit("conclusion"), RxOpt(RxLit("s")), RxSp0,
                RxEol>>),
            \* ^(?:[\d.]+\s*)?(?:conclusion|summary)\s+and\s+future\s+work\s*$
            RxSeq(<<RxBol, RxOpt(RxSeq(<<RxPlus(RxSet(Digits \cup {"."})),
                RxSp0>>)), RxAlt(<<RxLit("conclusion"), RxLit("summary")>>),
                RxSp1, RxLit("and"), RxSp1, RxLit("future"), RxSp1,
                RxLit("work"), RxSp0, RxEol>>),
            \* ^(?:[\d.]+\s*)?concluding\s+remarks?\s*$
            RxSeq(<<RxBol, RxOpt(RxSeq(<<RxPlus(RxSet(Digits \cup {"."})),
                RxSp0>>)), RxLit("concluding"), RxSp1, RxLit("remark"),
                RxOpt(RxLit("s")), RxSp0, RxEol>>),
            \* ^(?:[\d.]+\s*)?future\s+work\s*$
            RxSeq(<<RxBol, RxOpt(RxSeq(<<RxPlus(RxSet(Digits \cup {"."})),
                RxSp0>>)), RxLit("future"), RxSp1, RxLit("work"), RxSp0,
                RxEol>>),
            \* ^(?:[\d.]+\s*)?\u7ed3\u8bba\s*$
            RxSeq(<<RxBol, RxOpt(RxSeq(<<RxPlus(RxSet(Digits \cup {"."})),
                RxSp0>>)), RxChars(<<"U7ED3", "U8BBA">>), RxSp0, RxEol>>),
            \* ^(?:[\d.]+\s*)?\u603b\u7ed3\s*$
            RxSeq(<<RxBol, RxOpt(RxSeq(<<RxPlus(RxSet(Digits \cup {"."})),
                RxSp0>>)), RxChars(<<"U603B", "U7ED3">>), RxSp0, RxEol>>) >>],
       [section_type |-> "acknowledgments", patterns |->
         << \* ^acknowledgm?ents?\s*$
            RxSeq(<<RxBol, RxLit("acknowledg"), RxOpt(RxLit("m")),
                RxLit("ent"), RxOpt(RxLit("s")), RxSp0, RxEol>>),
            \* ^\u81f4\s*\u8c22\s*$
            RxSeq(<<RxBol, RxChars(<<"U81F4">>), RxSp0, RxChars(<<"U8C22">>),
                RxSp0, RxEol>>) >>],
       [section_type |-> "appendix", patterns |->
         << \* ^(?:[\d.]+\s*)?appendix\s*(?:[a-z])?\s*$
            RxSeq(<<RxBol, RxOpt(RxSeq(<<RxPlus(RxSet(Digits \cup {"."})),
                RxSp0>>)), RxLit("appendix"), RxSp0, RxOpt(RxSet(Lowers)),
                RxSp0, RxEol>>),
            \* ^(?:[\d.]+\s*)?supplementary\s+(?:material|information)\s*$
            RxSeq(<<RxBol, RxOpt(RxSeq(<<RxPlus(RxSet(Digits \cup {"."})),
                RxSp0>>)), RxLit("supplementary"), RxSp1,
                RxAlt(<<RxLit("material"), RxLit("information")>>), RxSp0,
                RxEol>>),
            \* ^\u9644\s*\u5f55\s*$
            RxSeq(<<RxBol, RxChars(<<"U9644">>), RxSp0, RxChars(<<"U5F55">>),
                RxSp0, RxEol>>) >>],
       [section_type |-> "references", patterns |->
         << \* ^references?\s*$
            RxSeq(<<RxBol, RxLit("reference"), RxOpt(RxLit("s")), RxSp0,
                RxEol>>),
            \* ^bibliography\s*$
            RxSeq(<<RxBol, RxLit("bibliography"), RxSp0, RxEol>>),
            \* ^\u53c2\u8003\u6587\u732e\s*$
            RxSeq(<<RxBol, RxChars(<<"U53C2", "U8003", "U6587", "U732E">>),
                RxSp0, RxEol>>) >>] >>

\* ^[\d.]+\s*
StripDecimal ==
    RxSeq(<<RxBol, RxPlus(RxSet(Digits \cup {"."})), RxSp0>>)

\* ^[ivxlcdm]+[.\s]+
StripRoman ==
    RxSeq(<<RxBol, RxPlus(RxSet({"i", "v", "x", "l", "c", "d", "m"})),
        RxPlus(RxSet(Spaces \cup {"."}))>>)

\* ^[a-z][.\s]+
StripLetter ==
    RxSeq(<<RxBol, RxSet(Lowers), RxPlus(RxSet(Spaces \cup {"."}))>>)

\* ^\d+(\.\d+)*\.?\s+\S
NumberedDecimal ==
    RxSeq(<<RxBol, RxPlus(RxDigit), RxStar(RxCap(1, RxSeq(<<RxLit("."),
        RxPlus(RxDigit)>>))), RxOpt(RxLit(".")), RxSp1, RxNotSp>>)

\* ^[IVXLCDM]+\.\s+\S
NumberedRoman ==
    RxSeq(<<RxBol, RxPlus(RxSet({"I", "V", "X", "L", "C", "D", "M"})),
        RxLit("."), RxSp1, RxNotSp>>)

\* ^\d+(\.\d+)*\.?\s+
NumberPrefix ==
    RxSeq(<<RxBol, RxPlus(RxDigit), RxStar(RxCap(1, RxSeq(<<RxLit("."),
        RxPlus(RxDigit)>>))), RxOpt(RxLit(".")), RxSp1>>)

\* (?:abstract|\u6458\s*\u8981)[:\s\u2014\-]*(.+?)(?=\n\s*(?:[\d.]+\s*)?(?:introduction|\u5f15\u8a00|keywords|\u5173\u952e\u8bcd|1\s))
AbstractPattern ==
    RxSeq(<<RxAlt(<<RxLit("abstract"), RxSeq(<<RxChars(<<"U6458">>), RxSp0,
        RxChars(<<"U8981">>)>>)>>), RxStar(RxSet(Spaces \cup {":", "P2014",
        "-"})), RxCap(1, RxLazy(RxAny, 1, -1)),
        RxLook(RxSeq(<<RxChars(<<"\n">>), RxSp0,
        RxOpt(RxSeq(<<RxPlus(RxSet(Digits \cup {"."})), RxSp0>>)),
        RxAlt(<<RxLit("introduction"), RxChars(<<"U5F15", "U8A00">>),
        RxLit("keywords"), RxChars(<<"U5173", "U952E", "U8BCD">>),
        RxSeq(<<RxLit("1"), RxSp>>)>>)>>))>>)


\* a section dictionary
Section(stype, heading, body, page_start, page_end) ==
    [section_type |-> stype, heading |-> heading, content |-> body,
     page_start |-> page_start, page_end |-> page_end]

\* round(x, 1) of a size that is not half way between two tenths
Round1(x) == ((x + 5) \div 10) * 10

Distance(a, b) == IF a < b THEN b - a ELSE a - b

DefaultBodySize == 1200

DefaultHeadingSize == 1400

HeadingBand == 600

HeadingStep == 150

\* font_sizes[round(block.font_size, 1)] += len(block.text), font_sizes a
\* sequence of [size, n] in the order of first insertion
Counted(font_sizes, size, n) ==
    IF \E i \in 1..Len(font_sizes) : font_sizes[i].size = size
    THEN [i \in 1..Len(font_sizes) |->
            IF font_sizes[i].size = size
            THEN [font_sizes[i] EXCEPT !.n = @ + n] ELSE font_sizes[i]]
    ELSE Append(font_sizes, [size |-> size, n |-> n])

RECURSIVE CountBlocks(_, _, _)
CountBlocks(font_sizes, blocks, k) ==
    IF k > Len(blocks) THEN font_sizes
    ELSE CountBlocks(IF Len(Strip(blocks[k].text)) > 3
                     THEN Counted(font_sizes, Round1(blocks[k].font_size),
                                  Len(blocks[k].text))
                     ELSE font_sizes, blocks, k + 1)

RECURSIVE CountPages(_, _, _)
CountPages(font_sizes, pages, p) ==
    IF p > Len(pages) THEN font_sizes
    ELSE CountPages(CountBlocks(font_sizes, pages[p].blocks, 1), pages, p + 1)

\* font_sizes.most_common(1)[0][0]: of the sizes counted most, the one
\* inserted first
most_common(font_sizes) ==
    font_sizes[CHOOSE i \in 1..Len(font_sizes) :
                 \A j \in 1..Len(font_sizes) :
                    \/ font_sizes[j].n < font_sizes[i].n
                    \/ font_sizes[j].n = font_sizes[i].n /\ i <= j].size

heading_candidates(font_sizes, body_size) ==
    {font_sizes[i].size : i \in {j \in 1..Len(font_sizes) :
        body_size < font_sizes[j].size /\ font_sizes[j].size <= body_size + HeadingBand}}

SizesOf(font_sizes, body_size) ==
    [body_size |-> body_size,
     heading_size |-> IF heading_candidates(font_sizes, body_size) # {}
                      THEN MinOf(heading_candidates(font_sizes, body_size))
                      ELSE body_size + HeadingStep]

SizesFrom(font_sizes) ==
    IF font_sizes = <<>>
    THEN [body_size |-> DefaultBodySize, heading_size |-> DefaultHeadingSize]
    ELSE SizesOf(font_sizes, most_common(font_sizes))

find_heading_font_size(doc) == SizesFrom(CountPages(<<>>, doc.pages, 1))

\* re.sub(pattern, "", s) for a pattern anchored at the start, r the outcome
\* of matching there
DropPrefix(s, r) == IF r.p = 0 THEN s ELSE SubSeq(s, r.p, Len(s))

Sub(re, s, fl) == DropPrefix(s, RxRun(<<re>>, s, RxStart(1), fl))

\* the heading lower-cased, its numbering kept
Clean_numbered(heading_text) == Strip(Lower(Strip(heading_text)))

\* the heading without its numbering
Clean(heading_text) ==
    Strip(Sub(StripLetter,
              Sub(StripRoman,
                  Sub(StripDecimal, Lower(Strip(heading_text)), Flags(FALSE, FALSE)),
                  Flags(TRUE, FALSE)),
              Flags(TRUE, FALSE)))

RECURSIVE FirstType(_, _)
FirstType(clean, t) ==
    IF t > Len(SECTION_PATTERNS) THEN "other"
    ELSE IF \E q \in 1..Len(SECTION_PATTERNS[t].patterns) :
               RxMatch(SECTION_PATTERNS[t].patterns[q], clean, Flags(TRUE, FALSE))
         THEN SECTION_PATTERNS[t].section_type
         ELSE FirstType(clean, t + 1)

classify_section(heading_text) == FirstType(Clean(heading_text), 1)

NumberedLimit == 150

NumberedAs(re, stripped) ==
    RxMatch(re, stripped, Flags(FALSE, FALSE)) /\ Len(stripped) < NumberedLimit

_is_numbered_heading(txt) ==
    \E re \in {NumberedDecimal, NumberedRoman} : NumberedAs(re, Strip(txt))

SameLineGap == 3

SameFontGap == 50

SameLine(b, prev) ==
    /\ Distance(b.y, prev.y) < SameLineGap
    /\ Distance(b.font_size, prev.font_size) < SameFontGap
    /\ b.is_bold = prev.is_bold
    /\ b.page_num = prev.page_num

MergedWith(merged, b) ==
    IF SameLine(b, merged[Len(merged)])
    THEN [merged EXCEPT ![Len(merged)].text = @ \o <<" ">> \o b.text]
    ELSE Append(merged, b)

RECURSIVE MergeFrom(_, _, _)
MergeFrom(merged, blocks, k) ==
    IF k > Len(blocks) THEN merged
    ELSE MergeFrom(MergedWith(merged, blocks[k]), blocks, k + 1)

_merge_adjacent_blocks(blocks) ==
    IF blocks = <<>> THEN blocks ELSE MergeFrom(<<blocks[1]>>, blocks, 2)

RECURSIVE MergePages(_, _)
MergePages(pages, p) ==
    IF p > Len(pages) THEN <<>>
    ELSE _merge_adjacent_blocks(pages[p].blocks) \o MergePages(pages, p + 1)

\* "\n".join(p.raw_text for p in doc.pages)
FullTextOf(doc) == Join(<<"\n">>, [p \in 1..Len(doc.pages) |-> doc.pages[p].raw_text])

\* detect_language: the share of CJK characters, compared as 10c > 3t
detect_language(txt) ==
    LET chinese_chars == Cardinality({i \in 1..Len(txt) : IsCJK(txt[i])})
        total_chars   == Len(Strip(txt))
    IN  IF total_chars = 0 THEN "en"
        ELSE IF 10 * chinese_chars > 3 * total_chars THEN "zh"
        ELSE "en"

TitleGap == 100

TitleBlocks == 5

FirstN(seq, n) == SubSeq(seq, 1, IF Len(seq) < n THEN Len(seq) ELSE n)

TitleSection(title_text) ==
    Section("title", Strip(title_text), Strip(title_text), 0, 0)

\* the title of all the blocks near the largest size
TitleOf_uncapped(blocks, max_font) ==
    TitleSection(Join(<<" ">>,
        [i \in 1..Len(SelectSeq(blocks,
                LAMBDA b : Distance(b.font_size, max_font) < TitleGap)) |->
            SelectSeq(blocks, LAMBDA b : Distance(b.font_size, max_font) < TitleGap)[i].text]))

TitleOf(blocks, max_font) ==
    TitleSection(Join(<<" ">>,
        [i \in 1..Len(FirstN(SelectSeq(blocks,
                LAMBDA b : Distance(b.font_size, max_font) < TitleGap), TitleBlocks)) |->
            SelectSeq(blocks, LAMBDA b : Distance(b.font_size, max_font) < TitleGap)[i].text]))

MaxFont(blocks, body_size) ==
    IF blocks = <<>> THEN body_size
    ELSE MaxOf({blocks[i].font_size : i \in 1..Len(blocks)})

\* the sections after the first pass: the title, when the largest font of
\* the first page is larger than the heading size
FirstPass(doc, sizes) ==
    IF MaxFont(doc.pages[1].blocks, sizes.body_size) > sizes.heading_size
    THEN <<TitleOf(doc.pages[1].blocks,
                   MaxFont(doc.pages[1].blocks, sizes.body_size))>>
    ELSE <<>>

\* str.isupper()
IsUpper(txt) ==
    /\ \E i \in 1..Len(txt) : txt[i] \in Uppers
    /\ \A i \in 1..Len(txt) : txt[i] \notin Lowers

HeadingLength == 200

ShortLength == 100

BoldMargin == 50

\* Check 1: font-based heading detection
Check1(block, txt, sizes) ==
    /\ block.font_size >= sizes.heading_size
    /\ Len(txt) < HeadingLength
    /\ (block.is_bold \/ block.font_size > sizes.body_size + BoldMargin)

\* Check 2: numbered heading pattern
Check2(txt, candidate_type) ==
    _is_numbered_heading(txt) /\ candidate_type # "other"

\* Check 3: bold text that matches a known section name
Check3(block, txt, candidate_type) ==
    block.is_bold /\ Len(txt) < ShortLength /\ candidate_type # "other"

\* Check 4: ALL-CAPS text that matches a known section name
Check4(txt, candidate_type) ==
    IsUpper(txt) /\ Len(txt) < ShortLength /\ candidate_type # "other"

IsHeading(block, txt, sizes, candidate_type) ==
    \/ Check1(block, txt, sizes)
    \/ Check2(txt, candidate_type)
    \/ Check3(block, txt, candidate_type)
    \/ Check4(txt, candidate_type)

\* sections and current_section (<<>> for None) with the section that was
\* being collected saved, if it has content
Saved(st) ==
    IF st.current # <<>> /\ Strip(st.current[1].content) # <<>>
    THEN Append(st.sections, st.current[1])
    ELSE st.sections

Collect(st, more, page_num) ==
    [st EXCEPT !.current[1].content = @ \o more,
               !.current[1].page_end = page_num]

Placed(st, block, txt, sizes, is_heading, stype) ==
    IF is_heading /\ stype # "other"
    THEN [sections |-> Saved(st),
          current  |-> <<Section(stype, txt, <<>>, block.page_num, block.page_num)>>]
    ELSE IF is_heading /\ stype = "other" /\ block.font_size > sizes.heading_size
    THEN (IF st.current # <<>>
          THEN Collect(st, S("\n### ") \o txt \o <<"\n">>, block.page_num)
          ELSE [st EXCEPT !.current =
                  <<Section("other", txt, <<>>, block.page_num, block.page_num)>>])
    ELSE IF st.current # <<>>
    THEN Collect(st, txt \o <<" ">>, block.page_num)
    ELSE st

Detected(st, block, txt, sizes, candidate_type) ==
    Placed(st, block, txt, sizes, IsHeading(block, txt, sizes, candidate_type),
           IF IsHeading(block, txt, sizes, candidate_type)
           THEN candidate_type ELSE "other")

Stripped(st, block, txt, sizes) ==
    IF txt = <<>> THEN st
    ELSE Detected(st, block, txt, sizes, classify_section(txt))

\* one iteration of: for block in all_blocks
BlockStep(st, block, sizes) == Stripped(st, block, Strip(block.text), sizes)

RECURSIVE BlockLoop(_, _, _, _)
BlockLoop(st, blocks, k, sizes) ==
    IF k > Len(blocks) THEN st
    ELSE BlockLoop(BlockStep(st, blocks[k], sizes), blocks, k + 1, sizes)

LineType(stripped, first) ==
    IF first = "other" /\ RxMatch(NumberedDecimal, stripped, Flags(FALSE, FALSE))
    THEN classify_section(Sub(NumberPrefix, stripped, Flags(FALSE, FALSE)))
    ELSE first

Typed(st, stripped, stype) ==
    IF stype # "other" /\ Len(stripped) < ShortLength
    THEN [sections |-> Saved(st),
          current  |-> <<Section(stype, stripped, <<>>, 0, 0)>>]
    ELSE IF st.current # <<>>
    THEN [st EXCEPT !.current[1].content = @ \o stripped \o <<" ">>]
    ELSE st

LineStep(st, stripped) ==
    IF stripped = <<>>
    THEN (IF st.current # <<>>
          THEN [st EXCEPT !.current[1].content = @ \o <<"\n">>] ELSE st)
    ELSE Typed(st, stripped, LineType(stripped, classify_section(stripped)))

RECURSIVE LineLoop(_, _, _)
LineLoop(st, lines, k) ==
    IF k > Len(lines) THEN st
    ELSE LineLoop(LineStep(st, Strip(lines[k])), lines, k + 1)

_extract_sections_from_text(full_text, language) ==
    Saved(LineLoop([sections |-> <<>>, current |-> <<>>], SplitLines(full_text, 1), 1))

Named(secs) ==
    SelectSeq(secs, LAMBDA s : s.section_type \notin {"title", "other"})

Titles(secs) == SelectSeq(secs, LAMBDA s : s.section_type = "title")

FewNamed == 2

\* the text sections in place of all the sections, the title too
Replaced_untitled(secs, text_sections) ==
    IF Len(text_sections) > Len(Named(secs))
    THEN text_sections
    ELSE secs

Replaced(secs, text_sections) ==
    IF Len(text_sections) > Len(Named(secs))
    THEN Titles(secs) \o text_sections
    ELSE secs

\* the text-based fallback when fewer than two named sections were detected
Fallback(secs, full_text, language) ==
    IF Len(Named(secs)) < FewNamed
    THEN Replaced(secs, _extract_sections_from_text(full_text, language))
    ELSE secs

InsertAt(seq, pos, x) ==
    SubSeq(seq, 1, pos) \o <<x>> \o SubSeq(seq, pos + 1, Len(seq))

AbstractLength == 50

\* the abstract put before every section
WithAbstract_front(secs, abstract_text) ==
    IF Len(abstract_text) > AbstractLength
    THEN InsertAt(secs, 0, Section("abstract", S("Abstract"), abstract_text, 0, 0))
    ELSE secs

WithAbstract(secs, abstract_text) ==
    IF Len(abstract_text) > AbstractLength
    THEN InsertAt(secs,
                  IF secs # <<>> /\ secs[1].section_type = "title" THEN 1 ELSE 0,
                  Section("abstract", S("Abstract"), abstract_text, 0, 0))
    ELSE secs

FromMatch(secs, full_text, abstract_match) ==
    IF abstract_match.b # 0
    THEN WithAbstract(secs, Strip(Group(full_text, abstract_match, 1)))
    ELSE secs

\* the abstract taken from the text when no section is one
Abstract(secs, full_text) ==
    IF \E i \in 1..Len(secs) : secs[i].section_type = "abstract"
    THEN secs
    ELSE FromMatch(secs, full_text,
                  RxSearchFrom(AbstractPattern, full_text, 1, Flags(TRUE, TRUE)))

\* analyze_layout without its last resort, the full text section
FullText_never(secs, full_text, doc) == secs

\* the single full text section when at most one section was found
FullText(secs, full_text, doc) ==
    IF Len(secs) <= 1
    THEN Append(secs, Section("other", S("Full Text"), full_text, 0,
                              doc.page_count - 1))
    ELSE secs

Result(secs, language) == [sections |-> secs, language |-> language]

Finished(doc, sizes, full_text, language) ==
    Result(FullText(Abstract(Fallback(
               Saved(BlockLoop([sections |-> FirstPass(doc, sizes), current |-> <<>>],
                               MergePages(doc.pages, 1), 1, sizes)),
               full_text, language), full_text), full_text, doc),
           language)

WithText(doc, full_text) ==
    Finished(doc, find_heading_font_size(doc), full_text, detect_language(full_text))

analyze_layout(doc) ==
    IF doc.pages = <<>> THEN Result(<<>>, "en")
    ELSE WithText(doc, FullTextOf(doc))
\* ------------------------------------------------------------------------
\* core/pdf_parser/reference_parser.py. An optional value is <<>> (None)
\* or <<value>>.
\* ------------------------------------------------------------------------

\* \n\s*(?:\[(\d+)\]|(\d+)\.\s)
RefMarker ==
    RxSeq(<<RxChars(<<"\n">>), RxSp0, RxAlt(<<RxSeq(<<RxLit("["), RxCap(1,
        RxPlus(RxDigit)), RxLit("]")>>), RxSeq(<<RxCap(2, RxPlus(RxDigit)),
        RxLit("."), RxSp>>)>>)>>)

\* \b(19|20)\d{2}\b
YearPattern ==
    RxSeq(<<RxWb, RxCap(1, RxAlt(<<RxLit("19"), RxLit("20")>>)),
        RxRep(RxDigit, 2, 2), RxWb>>)

\* (10\.\d{4,}/[^\s]+)
DoiPattern ==
    RxCap(1, RxSeq(<<RxLit("10."), RxRep(RxDigit, 4, -1), RxLit("/"),
        RxPlus(RxNotSet(Spaces))>>))

\* ["""](.+?)["""]
QuotedTitle ==
    RxSeq(<<RxChars(<<"\"">>), RxCap(1, RxLazy(RxAny, 1, -1)), RxChars(<<"\"">>)>>)

\* \.\s+
SentenceEnd ==
    RxSeq(<<RxLit("."), RxSp1>>)

\* \s+and\s+|,\s*|\s*&\s*
AuthorSeparator ==
    RxAlt(<<RxSeq(<<RxSp1, RxLit("and"), RxSp1>>), RxSeq(<<RxLit(","),
        RxSp0>>), RxSeq(<<RxSp0, RxLit("&"), RxSp0>>)>>)


\* a piece of re.split, none for a group that took no part in the match
Piece(s) == [none |-> FALSE, s |-> s]

GroupPiece(s, m, g) ==
    IF m.c[g] = <<0, 0>> THEN [none |-> TRUE, s |-> <<>>] ELSE Piece(Group(s, m, g))

\* re.split for a pattern of two groups: the pieces of s between the matches
\* ms, each match followed by its two groups
RECURSIVE SplitGroups(_, _, _, _)
SplitGroups(s, ms, k, from) ==
    IF k > Len(ms) THEN <<Piece(SubSeq(s, from, Len(s)))>>
    ELSE <<Piece(SubSeq(s, from, ms[k].b - 1)), GroupPiece(s, ms[k], 1),
           GroupPiece(s, ms[k], 2)>> \o SplitGroups(s, ms, k + 1, ms[k].e)

\* str.isdigit()
IsDigit(s) == s # <<>> /\ \A i \in 1..Len(s) : s[i] \in Digits \cup Superscripts

\* a string int() converts
IsDecimal(s) == \A i \in 1..Len(s) : s[i] \in Digits

\* str(e) of the ValueError of int(s)
IntError(s) == S("invalid literal for int() with base 10: '") \o s \o S("'")

DigitValue(c) == CHOOSE d \in 0..9 : S("0123456789")[d + 1] = c

\* int(s) of a string of digits
RECURSIVE ToInt(_)
ToInt(s) ==
    IF s = <<>> THEN 0
    ELSE 10 * ToInt(SubSeq(s, 1, Len(s) - 1)) + DigitValue(s[Len(s)])

\* str.rstrip(chars)
RECURSIVE RStripSet(_, _)
RStripSet(s, chars) ==
    IF s # <<>> /\ s[Len(s)] \in chars
    THEN RStripSet(SubSeq(s, 1, Len(s) - 1), chars) ELSE s

Optional(m, value) == IF m.b = 0 THEN <<>> ELSE <<value>>

TitleLength == 10

\* the title when no quoted title was found: parts[1] of
\* re.split(r"\.\s+", text, maxsplit=3)
SecondPart(parts) ==
    IF Len(parts) >= 2 /\ Len(parts[2]) > TitleLength THEN <<Strip(parts[2])>>
    ELSE <<>>

MaxSplit == 3

TitleOfReference(txt, title_match, ends) ==
    IF title_match.b # 0 THEN <<Group(txt, title_match, 1)>>
    ELSE SecondPart(SplitAt(txt, FirstN(ends, MaxSplit), 1, 1))

AuthorPrefix == 50

AuthorText(txt, year_match) ==
    IF year_match.b # 0
    THEN RStripSet(Strip(SubSeq(txt, 1, year_match.b - 1)), {",", ".", "("})
    ELSE FirstN(txt, AuthorPrefix)

MaxAuthors == 10

\* [a.strip() for a in authors if a.strip() and len(a.strip()) > 1][:10]
Authors(authors) ==
    FirstN(SelectSeq([i \in 1..Len(authors) |-> Strip(authors[i])],
                     LAMBDA a : Len(a) > 1), MaxAuthors)

AuthorsOf(author_text) ==
    IF author_text = <<>> THEN <<>>
    ELSE Authors(SplitAt(author_text,
                         RxFindIter(AuthorSeparator, author_text, 1,
                                    Flags(FALSE, FALSE)), 1, 1))

Reference(txt, order, year_match, doi_match, title_match, ends) ==
    [raw_text |-> txt,
     title    |-> TitleOfReference(txt, title_match, ends),
     authors  |-> AuthorsOf(AuthorText(txt, year_match)),
     year     |-> Optional(year_match, ToInt(Whole(txt, year_match))),
     venue    |-> <<>>,
     doi      |-> Optional(doi_match, RStripSet(Group(txt, doi_match, 1), {"."})),
     order    |-> order]

_parse_single_reference(txt, order) ==
    Reference(txt, order,
              RxSearchFrom(YearPattern, txt, 1, Flags(FALSE, FALSE)),
              RxSearchFrom(DoiPattern, txt, 1, Flags(FALSE, FALSE)),
              RxSearchFrom(QuotedTitle, txt, 1, Flags(FALSE, FALSE)),
              RxFindIter(SentenceEnd, txt, 1, Flags(FALSE, FALSE)))

\* references with the reference collected in current_ref, if any, appended
Flushed(st) ==
    IF Strip(st.current_ref) # <<>>
    THEN Append(st.references,
                _parse_single_reference(Strip(st.current_ref), st.ref_num))
    ELSE st.references

\* ref_num = int(block.strip()), after the flush; error holds the message
\* of the exception when int raises
Numbered(st, digits) ==
    IF IsDecimal(digits)
    THEN [references |-> Flushed(st), current_ref |-> <<>>,
          ref_num |-> ToInt(digits), error |-> <<>>]
    ELSE [st EXCEPT !.references = Flushed(st), !.error = <<IntError(digits)>>]

\* the body of: for block in ref_blocks; nothing runs after an exception
RefBlock(st, block) ==
    IF st.error # <<>> \/ block.none THEN st
    ELSE IF IsDigit(Strip(block.s)) THEN Numbered(st, Strip(block.s))
    ELSE [st EXCEPT !.current_ref = @ \o block.s]

RECURSIVE RefBlocks(_, _, _)
RefBlocks(st, ref_blocks, k) ==
    IF k > Len(ref_blocks) THEN st
    ELSE RefBlocks(RefBlock(st, ref_blocks[k]), ref_blocks, k + 1)

ReferenceLength == 20

\* if no structured refs found, try line-by-line
RECURSIVE RefLines(_, _)
RefLines(lines, i) ==
    IF i > Len(lines) THEN <<>>
    ELSE (IF Len(Strip(lines[i])) > ReferenceLength
          THEN <<_parse_single_reference(Strip(lines[i]), i)>> ELSE <<>>)
            \o RefLines(lines, i + 1)

Structured(txt, references) ==
    IF references = <<>> THEN RefLines(SplitLines(Strip(txt), 1), 1)
    ELSE references

\* re.split(r"\n\s*(?:\[(\d+)\]|(\d+)\.\s)", text)
SplitMarkers(txt) ==
    SplitGroups(txt, RxFindIter(RefMarker, txt, 1, Flags(FALSE, FALSE)), 1, 1)

\* current_ref = ""; ref_num = 0
NoReferences ==
    [references |-> <<>>, current_ref |-> <<>>, ref_num |-> 0, error |-> <<>>]

\* what parse_references does after the loop over ref_blocks
Outcome(txt, st) ==
    IF st.error # <<>> THEN Raised(st.error[1])
    ELSE Returned(Structured(txt, Flushed(st)))

parse_references(txt) ==
    Outcome(txt, RefBlocks(NoReferences, SplitMarkers(txt), 1))

\* ------------------------------------------------------------------------
\* core/pdf_parser/pymupdf_parser.py, extract_tables_from_pdf. A cell is a
\* text, the empty text for None.
\* ------------------------------------------------------------------------

caption_patterns ==
    << \* (Table\s+\d+[.:]\s*.{5,200}?)(?:\n|$)
       RxSeq(<<RxCap(1, RxSeq(<<RxLit("Table"), RxSp1, RxPlus(RxDigit),
           RxSet({".", ":"}), RxSp0, RxLazy(RxAny, 5, 200)>>)),
           RxAlt(<<RxChars(<<"\n">>), RxEol>>)>>),
       \* (\u8868\s*\d+[.:\uff1a]\s*.{5,200}?)(?:\n|$)
       RxSeq(<<RxCap(1, RxSeq(<<RxChars(<<"U8868">>), RxSp0, RxPlus(RxDigit),
           RxSet({".", ":", "PFF1A"}), RxSp0, RxLazy(RxAny, 5, 200)>>)),
           RxAlt(<<RxChars(<<"\n">>), RxEol>>)>>),
       \* (TABLE\s+\d+[.:]\s*.{5,200}?)(?:\n|$)
       RxSeq(<<RxCap(1, RxSeq(<<RxLit("TABLE"), RxSp1, RxPlus(RxDigit),
           RxSet({".", ":"}), RxSp0, RxLazy(RxAny, 5, 200)>>)),
           RxAlt(<<RxChars(<<"\n">>), RxEol>>)>>) >>

caption_prefixes ==
    << \* ^Table\s+\d+[.:]?\s*
       RxSeq(<<RxBol, RxLit("Table"), RxSp1, RxPlus(RxDigit),
           RxOpt(RxSet({".", ":"})), RxSp0>>),
       \* ^TABLE\s+\d+[.:]?\s*
       RxSeq(<<RxBol, RxLit("TABLE"), RxSp1, RxPlus(RxDigit),
           RxOpt(RxSet({".", ":"})), RxSp0>>),
       \* ^Tab\.?\s+\d+[.:]?\s*
       RxSeq(<<RxBol, RxLit("Tab"), RxOpt(RxLit(".")), RxSp1,
           RxPlus(RxDigit), RxOpt(RxSet({".", ":"})), RxSp0>>),
       \* ^\u8868\s*\d+[.:\uff1a]?\s*
       RxSeq(<<RxBol, RxChars(<<"U8868">>), RxSp0, RxPlus(RxDigit),
           RxOpt(RxSet({".", ":", "PFF1A"})), RxSp0>>) >>


\* re.findall for a pattern of one group
FindAll(s, ms) == [k \in 1..Len(ms) |-> Group(s, ms[k], 1)]

RECURSIVE Captions(_, _)
Captions(page_text, p) ==
    IF p > Len(caption_patterns) THEN <<>>
    ELSE FindAll(page_text, RxFindIter(caption_patterns[p], page_text, 1,
                                       Flags(TRUE, FALSE)))
            \o Captions(page_text, p + 1)

CaptionAt(captions, table_index) ==
    IF captions # <<>> /\ table_index < Len(captions)
    THEN Strip(captions[table_index + 1])
    ELSE IF captions # <<>> THEN Strip(captions[1])
    ELSE <<>>

_find_table_caption(page_text, table_index) ==
    CaptionAt(Captions(page_text, 1), table_index)

RECURSIVE Cleaned(_, _)
Cleaned(cleaned, p) ==
    IF p > Len(caption_prefixes) THEN cleaned
    ELSE Cleaned(Sub(caption_prefixes[p], cleaned, Flags(TRUE, FALSE)), p + 1)

_clean_caption(caption) == IF caption = <<>> THEN <<>> ELSE Strip(Cleaned(caption, 1))

\* [str(h or "").strip() for h in extracted[0]]
raw_headers(first) == [i \in 1..Len(first) |-> Strip(first[i])]

\* the indices of the columns whose header is not empty
non_empty_indices(headers) ==
    SelectSeq([i \in 1..Len(headers) |-> i], LAMBDA i : headers[i] # <<>>)

\* any(row)
AnyCell(row) == \E i \in 1..Len(row) : row[i] # <<>>

clean_row(row, indices) == [k \in 1..Len(indices) |-> Strip(row[indices[k]])]

\* a row that is not all empty or separators
HasData(cells) ==
    \E k \in 1..Len(cells) : cells[k] \notin {<<>>, <<"P2014">>, <<"-">>}

RECURSIVE DataRows(_, _, _)
DataRows(extracted, indices, r) ==
    IF r > Len(extracted) THEN <<>>
    ELSE (IF AnyCell(extracted[r]) /\ HasData(clean_row(extracted[r], indices))
          THEN <<clean_row(extracted[r], indices)>> ELSE <<>>)
            \o DataRows(extracted, indices, r + 1)

\* row[i] raises IndexError for a row shorter than a kept column
ShortRow(extracted, indices) ==
    \E r \in 2..Len(extracted) :
        AnyCell(extracted[r]) /\ \E k \in 1..Len(indices) : indices[k] > Len(extracted[r])

TableDict(page_num, headers, rows, caption) ==
    [page |-> page_num + 1, headers |-> headers, rows |-> rows, caption |-> caption]

WithRows(extracted, headers, indices, rows, page_text, page_num, ti) ==
    IF rows = <<>> THEN <<>>
    ELSE <<TableDict(page_num, [k \in 1..Len(indices) |-> headers[indices[k]]], rows,
                     _clean_caption(_find_table_caption(page_text, ti)))>>

WithIndices(extracted, headers, indices, page_text, page_num, ti) ==
    IF indices = <<>> \/ ShortRow(extracted, indices) THEN <<>>
    ELSE WithRows(extracted, headers, indices, DataRows(extracted, indices, 2),
                  page_text, page_num, ti)

\* the body of: for ti, table in enumerate(page_tables); <<>> for a table
\* that is skipped
OneTable(tbl, page_text, page_num, ti) ==
    IF tbl.raises \/ Len(tbl.extracted) < 2 THEN <<>>
    ELSE WithIndices(tbl.extracted, raw_headers(tbl.extracted[1]),
                     non_empty_indices(raw_headers(tbl.extracted[1])),
                     page_text, page_num, ti)

\* a loop over the tables of a page that a failing table ends
RECURSIVE PageTables_abort(_, _, _, _)
PageTables_abort(found, page_text, page_num, ti) ==
    IF ti >= Len(found) \/ found[ti + 1].raises THEN <<>>
    ELSE OneTable(found[ti + 1], page_text, page_num, ti)
            \o PageTables_abort(found, page_text, page_num, ti + 1)

RECURSIVE PageTables(_, _, _, _)
PageTables(found, page_text, page_num, ti) ==
    IF ti >= Len(found) THEN <<>>
    ELSE OneTable(found[ti + 1], page_text, page_num, ti)
            \o PageTables(found, page_text, page_num, ti + 1)

RECURSIVE DocTables(_, _)
DocTables(pages, p) ==
    IF p > Len(pages) THEN <<>>
    ELSE PageTables(pages[p].tables.found, pages[p].text, p - 1, 0)
            \o DocTables(pages, p + 1)

\* the message of the exception of page.find_tables
TablesError == S("find_tables failed")

extract_tables_from_pdf(file) ==
    IF ~file.opens THEN Raised(OpenError)
    ELSE IF \E p \in 1..Len(file.pages) : file.pages[p].tables.raises
    THEN Raised(TablesError)
    ELSE Returned(DocTables(file.pages, 1))

\* ------------------------------------------------------------------------
\* tasks/worker.py and services/parsing_service.py: the rows of the task,
\* section, table and reference tables. Progress is in hundredths. The id
\* of a row (a uuid) is the run that made it and its number in that run.
\* ------------------------------------------------------------------------

create_task_record(tasks) ==
    Append(tasks, [status |-> "pending", progress |-> 0, current_step |-> "Queued",
                   error_message |-> <<>>])

update_task_progress(tasks, task_id, progress, current_step) ==
    [tasks EXCEPT ![task_id] = [@ EXCEPT !.progress = progress,
                                         !.current_step = current_step,
                                         !.status = "running"]]

\* a complete_task that writes nothing
complete_task_lost(tasks, task_id) == tasks

complete_task(tasks, task_id) ==
    [tasks EXCEPT ![task_id] = [@ EXCEPT !.status = "completed",
                                         !.progress = 100,
                                         !.current_step = "Done"]]

\* a fail_task that writes nothing
fail_task_lost(tasks, task_id, error_message) == tasks

fail_task(tasks, task_id, error_message) ==
    [tasks EXCEPT ![task_id] = [@ EXCEPT !.status = "failed",
                                         !.current_step = "Failed",
                                         !.error_message = <<error_message>>]]

RowId(task_id, n) == [run |-> task_id, n |-> n]

\* a section row whose order is the page the section starts on
PaperSection_by_page(task_id, i, sec_data) ==
    [id |-> RowId(task_id, i), section_type |-> sec_data.section_type,
     heading |-> sec_data.heading, content |-> sec_data.content,
     page_start |-> sec_data.page_start, page_end |-> sec_data.page_end,
     order |-> sec_data.page_start]

\* PaperSection(..., order=i)
PaperSection(task_id, i, sec_data) ==
    [id |-> RowId(task_id, i), section_type |-> sec_data.section_type,
     heading |-> sec_data.heading, content |-> sec_data.content,
     page_start |-> sec_data.page_start, page_end |-> sec_data.page_end,
     order |-> i]

\* for i, sec_data in enumerate(sections_data): the rows added, i from 0
SectionRows(task_id, secs) ==
    [k \in 1..Len(secs) |-> PaperSection(task_id, k - 1, secs[k])]

PaperTable(task_id, n, tbl) ==
    [id |-> RowId(task_id, n), caption |-> tbl.caption, headers |-> tbl.headers,
     rows |-> tbl.rows, page |-> tbl.page]

\* the rows added for tables_data, none when extract_tables_from_pdf raised
TableRows(task_id, tables_data) ==
    IF tables_data.raised THEN <<>>
    ELSE [k \in 1..Len(tables_data.value) |->
            PaperTable(task_id, k - 1, tables_data.value[k])]

PaperReference(task_id, n, ref_data) ==
    [id |-> RowId(task_id, n), raw_text |-> ref_data.raw_text,
     title |-> ref_data.title, authors |-> ref_data.authors,
     year |-> ref_data.year, venue |-> ref_data.venue, doi |-> ref_data.doi,
     order |-> ref_data.order]

RefsRows(task_id, refs_data) ==
    [k \in 1..Len(refs_data) |-> PaperReference(task_id, k - 1, refs_data[k])]

\* refs_data = parse_references(ref_sections[0]["content"]), the empty list
\* returned when there is no references section
refs_data(ref_sections) ==
    IF ref_sections = <<>> THEN Returned(<<>>)
    ELSE parse_references(ref_sections[1].content)

\* the rows added for the first references section, if there is one
ReferenceRows(task_id, ref_sections) ==
    RefsRows(task_id, refs_data(ref_sections).value)

TitleColumn == 500

AbstractColumn == 5000

\* the content, cut to cap, of the last section of the type that has one
RECURSIVE LastContent(_, _, _, _, _)
LastContent(secs, stype, cap, k, value) ==
    IF k > Len(secs) THEN value
    ELSE LastContent(secs, stype, cap, k + 1,
                     IF secs[k].section_type = stype /\ secs[k].content # <<>>
                     THEN FirstN(secs[k].content, cap) ELSE value)

\* paper.language, paper.title and paper.abstract of the layout result
Described(row, result) ==
    [row EXCEPT !.language = result.language,
                !.title = LastContent(result.sections, "title", TitleColumn, 1, @),
                !.abstract = LastContent(result.sections, "abstract", AbstractColumn,
                                         1, @)]

\* ------------------------------------------------------------------------
\* State
\* ------------------------------------------------------------------------

VARIABLES
    \* the caller of extract_relationships: the entity list and context it
    \* holds, the calls it has still to make, the lists returned to it
    rel_input, context, rel_plan, rel_runs,
    \* extract_relationships: its argument, its locals, its loop indices
    entities, rel_pc, limited, relationships, seen_pairs, rel_i, rel_j,
    \* the caller of extract_entities: the section it holds, the number of
    \* calls it has still to make, the lists returned to it
    ent_input, ent_calls, ent_runs,
    \* extract_entities: its arguments, its locals (text, seen, entities),
    \* the stage it is at and the library the first stage is at
    section_type, content, ent_text, seen, ent_entities, ent_pc, ent_lib,
    \* the caller of analyze_layout: the document it holds, the number of
    \* calls it has still to make, the (sections, language) returned to it
    lay_input, lay_calls, lay_runs,
    \* analyze_layout: its argument doc, its locals (body_size and
    \* heading_size, full_text, language, sections, current_section,
    \* all_blocks), the index of the block loop and the stage it is at
    lay_doc, lay_sizes, lay_text, lay_language, lay_sections, current_section,
    all_blocks, lay_k, lay_pc,
    \* the file at paper.pdf_path; the paper row; the tables async_tasks,
    \* paper_sections, paper_tables and paper_references
    pdf, paper, async_tasks, paper_sections, paper_tables, paper_references,
    \* run_parsing_pipeline, per task: the stage it is at, its locals
    \* parsed_doc and sections_data, the exception e it caught
    pipe_pc, parsed_doc, sections_data, pipe_error,
    \* the caller of parse_references: the text it holds, what was returned
    \* to it or raised
    ref_input, ref_runs,
    \* parse_references: its locals ref_blocks and (references, current_ref,
    \* ref_num), the index of the loop over ref_blocks, the stage it is at
    ref_blocks, ref_locals, ref_k, ref_pc,
    \* the caller of detect_language and classify_section: the text it
    \* holds, what each of the two returned to it
    txt_input, txt_language, txt_type

relVars == <<rel_input, context, rel_plan, rel_runs, entities, rel_pc, limited,
             relationships, seen_pairs, rel_i, rel_j>>

entVars == <<ent_input, ent_calls, ent_runs, section_type, content, ent_text,
             seen, ent_entities, ent_pc, ent_lib>>

layVars == <<lay_input, lay_calls, lay_runs, lay_doc, lay_sizes, lay_text,
             lay_language, lay_sections, current_section, all_blocks, lay_k,
             lay_pc>>

pipeVars == <<pdf, paper, async_tasks, paper_sections, paper_tables,
              paper_references, pipe_pc, parsed_doc, sections_data, pipe_error>>

refVars == <<ref_input, ref_runs, ref_blocks, ref_locals, ref_k, ref_pc>>

txtVars == <<txt_input, txt_language, txt_type>>

vars == <<relVars, entVars, layVars, pipeVars, refVars, txtVars>>

\* what a step of one function leaves alone
notRel == <<entVars, layVars, pipeVars, refVars, txtVars>>

notEnt == <<relVars, layVars, pipeVars, refVars, txtVars>>

notLay == <<relVars, entVars, pipeVars, refVars, txtVars>>

notPipe == <<relVars, entVars, layVars, refVars, txtVars>>

notRef == <<relVars, entVars, layVars, pipeVars, txtVars>>

notTxt == <<relVars, entVars, layVars, pipeVars, refVars>>

\* ------------------------------------------------------------------------
\* Bounds and inputs
\* ------------------------------------------------------------------------

\* length of the entity lists enumerated in full
MaxEntities == 3

Entity(text, type) == [text |-> S(text), entity_type |-> type]

EntityMenu ==
    {Entity("BERT", "method"), Entity("Bert", "method"),
     Entity("GLUE", "dataset"), Entity("GPT", "baseline")}

SmallEntityLists == UNION {[1..n -> EntityMenu] : n \in 0..MaxEntities}

Filler(n) == [i \in 1..n |-> "x"]

\* BERT and GLUE with start offsets d characters apart
Apart(d) == S("BERT ") \o Filler(d - 6) \o S(" GLUE")

SmallContexts ==
    {S("We evaluate BERT on GLUE"),
     S("BERT outperforms GPT"),
     S("Both BERT and GPT with GLUE"),
     S("GPT includes Bert")}

PairLists ==
    {<<Entity("BERT", "method"), Entity("GLUE", "dataset")>>,
     <<Entity("GLUE", "dataset"), Entity("BERT", "method")>>}

\* lists longer than the cap: k entities absent from the context, then
\* entities that a template relates
Padded(k, last) == [i \in 1..k |-> Entity("ResNet", "method")] \o last

LongEntityLists ==
    {Padded(EntityCap - 2, <<Entity("BERT", "method"), Entity("GLUE", "dataset"),
                             Entity("GPT", "baseline")>>),
     Padded(EntityCap - 1, <<Entity("BERT", "method"), Entity("GLUE", "dataset")>>)}

RelInputs ==
    (SmallEntityLists \X SmallContexts)
        \cup (PairLists \X {Apart(CoOccurWindow - 1), Apart(CoOccurWindow)})
        \cup (LongEntityLists \X {S("BERT on GLUE with GPT")})

\* ------------------------------------------------------------------------
\* Inputs of extract_entities
\* ------------------------------------------------------------------------

\* number of calls the caller makes on the section it holds
CallsPerInput == 2

\* number of sentences of a section content
MaxSentences == 2

Sentences ==
    << S("We evaluate BERT on the GLUE benchmark. "),
       S("Our model outperforms bert and GPT-2 on accuracy. "),
       S("We address the problem of entity linking, and more. "),
       S("Baselines include LSTM, Vanilla RNN, our parser and CRF. "),
       S("The ImageNet dataset and the imagenet corpus. ") >>

RECURSIVE Concat(_)
Concat(parts) == IF parts = <<>> THEN <<>> ELSE Head(parts) \o Concat(Tail(parts))

\* the contents of up to MaxSentences different sentences, and two contents
\* that are too short, and None
Contents ==
    {Concat([k \in 1..Len(pick) |-> Sentences[pick[k]]]) :
        pick \in {p \in UNION {[1..n -> 1..Len(Sentences)] : n \in 1..MaxSentences} :
                    \A a, b \in 1..Len(p) : a # b => p[a] # p[b]}}
        \cup {<<>>, None, S("   BERT on GLUE.             ")}

\* a content of more than 12,000 characters: a sentence, full stops up to
\* the 12,000th character, a sentence after it
LongContent ==
    Sentences[1] \o [i \in 1..(12000 - Len(Sentences[1])) |-> "."]
        \o S(" We also use LSTM.")

SectionTypes == {"abstract", "experiments", "methods", "other"}

EntInputs ==
    [section_type : SectionTypes, content : Contents]
        \cup {[section_type |-> "other", content |-> LongContent]}

\* ------------------------------------------------------------------------
\* PDF files and the documents parse_pdf builds of them
\* ------------------------------------------------------------------------

LayCallsPerInput == 2

Roman == "Times-Roman"

Bold == "Times-Bold"

Span(str, size, font) == [text |-> S(str), size |-> size, font |-> font]

Chars(cs, size, font) == [text |-> cs, size |-> size, font |-> font]

\* a text block of one line
Line(spans) == [type |-> 0, spans |-> spans]

Image == [type |-> 1, spans |-> <<>>]

TitleBig == Line(<<Span("Deep Parsing of Papers", 1600, Roman)>>)

TitleWin == Line(<<Span("Deep Parsing of Papers", 1040, Roman)>>)

Note == Line(<<Span("name@site.org", 1018, Roman)>>)

AbsInline ==
    Line(<<Span("Abstract: We study how a parser recovers the structure of papers.",
                1000, Roman)>>)

Kw == Line(<<Span("Keywords: parsing", 1000, Roman)>>)

AbsHead == Line(<<Span("Abstract", 1000, Bold)>>)

Body == Line(<<Span("We parse text well enough.", 1000, Roman)>>)

Intro == Line(<<Span("1 Introduction", 1000, Bold)>>)

Methods == Line(<<Span("METHODS", 1000, Roman)>>)

Results == Line(<<Span("Results", 1200, "Helvetica-bold")>>)

Contribution == Line(<<Span("Our Contribution", 1300, Roman)>>)

RelatedWork == Line(<<Span("2. ", 1000, Bold), Span("Related Work", 1000, Bold)>>)

Mixed ==
    Line(<<Span("We use ", 1000, Roman), Span(" ", 1000, Roman),
           Span("bold", 1000, Bold)>>)

Zhaiyao == Line(<<Chars(<<"U6458", "U8981">>, 1000, Bold)>>)

Yinyan == Line(<<Chars(<<"1", " ", "U5F15", "U8A00">>, 1000, Roman)>>)

Zhengwen ==
    Line(<<Chars(<<"U6211", "U4EEC", "U89E3", "U6790", "U6587", "U672C", "P3002">>,
                 1000, Roman)>>)

Refs == Line(<<Span("References", 1000, Bold)>>)

RefEntry == Line(<<Span("[1] A. Author. A paper. 2020.", 900, Roman)>>)

LineTop == 100

LineHeight == 12

\* the block with its spans at the height of line li
AtLine(block, li) ==
    [block EXCEPT !.spans = [i \in 1..Len(block.spans) |->
        [text |-> block.spans[i].text, size |-> block.spans[i].size,
         font |-> block.spans[i].font, y |-> LineTop + LineHeight * li]]]

\* page.get_text("text"): the lines of the text blocks
RECURSIVE RawText(_, _)
RawText(blocks, b) ==
    IF b > Len(blocks) THEN <<>>
    ELSE (IF blocks[b].type # 0 THEN <<>>
          ELSE Concat([i \in 1..Len(blocks[b].spans) |-> blocks[b].spans[i].text])
                 \o <<"\n">>)
            \o RawText(blocks, b + 1)

\* page.find_tables() finds nothing
NoTables == [raises |-> FALSE, found |-> <<>>]

FilePage(blocks) ==
    [text   |-> RawText(blocks, 1),
     blocks |-> [b \in 1..Len(blocks) |-> AtLine(blocks[b], b)],
     tables |-> NoTables]

\* a file both libraries read
FileOf(pages) ==
    [opens   |-> TRUE,
     pages   |-> [p \in 1..Len(pages) |-> FilePage(pages[p])],
     plumber |-> [p \in 1..Len(pages) |-> RawText(pages[p], 1)]]

NoFile == FileOf(<<>>)

FrontMatter == {<<>>, <<TitleBig>>, <<TitleWin, Note>>}

AbstractPart == {<<>>, <<AbsInline, Kw>>, <<AbsHead, Body>>}

BodyPart ==
    {<<Body>>, <<Intro, Body>>, <<Intro, Body, Methods, Body>>,
     <<Contribution, Body, Mixed>>, <<RelatedWork, Body>>}

SecondPage == {<<Results, Body>>, <<Refs, RefEntry>>, <<Image>>}

FirstPages == {f \o a \o b : f \in FrontMatter, a \in AbstractPart, b \in BodyPart}

\* a title of six spans of the largest size
TitleSplit ==
    Line(<<Span("Deep ", 1600, Roman), Span("Parsing ", 1600, Roman),
           Span("of ", 1600, Roman), Span("Papers ", 1550, Roman),
           Span("in ", 1600, Roman), Span("Bulk", 1600, Roman)>>)

Subtitle == Line(<<Span("A Study", 1500, Roman)>>)

\* headings the font-based pass does not see: body size, not bold
PlainIntro == Line(<<Span("Introduction", 1000, Roman)>>)

PlainConclusion == Line(<<Span("Conclusion", 1000, Roman)>>)

\* an inline abstract of fewer than 50 characters
AbsShort == Line(<<Span("Abstract: We parse papers.", 1000, Roman)>>)

\* a body line that reaches the parser as one span per word
Kerned ==
    Line(<<Span("We ", 1000, Roman), Span("do ", 1000, Roman), Span("it ", 1000, Roman),
           Span("all ", 1000, Roman), Span("day ", 1000, Roman), Span("and ", 1000, Roman),
           Span("so ", 1000, Roman), Span("on.", 1000, Roman)>>)

ExtraPages ==
    {<<Results, Kerned>>,
     <<TitleSplit, Subtitle, Body>>,
     <<TitleWin, Note, AbsShort, Kw, Body>>,
     <<TitleWin, Note, PlainIntro, Body, PlainConclusion, Body>>,
     <<Intro, Body, PlainConclusion, Body>>}

ChinesePages == {<<Zhaiyao, Zhengwen, Yinyan, Zhengwen>>, <<Zhengwen, Body>>}

\* two pages with headings the font-based pass does not see
PlainPages == <<<<TitleWin, Note, PlainIntro, Body>>, <<PlainConclusion, Body>>>>

LayFiles ==
    {FileOf(ps) : ps \in {<<>>, <<<<>>>>}
                         \cup {<<p>> : p \in FirstPages \cup ChinesePages \cup ExtraPages}
                         \cup {<<p, q>> : p \in FirstPages, q \in SecondPage}
                         \cup {PlainPages}}

LayInputs == {parse_pdf(f).value : f \in LayFiles}

\* ------------------------------------------------------------------------
\* Uploaded files
\* ------------------------------------------------------------------------

\* number of parsing tasks created for the paper
MaxTasks == 2

Caption == Line(<<Span("Table 1: Parsing accuracy", 900, Roman)>>)

RefEntry2 ==
    Line(<<Span("[2] B. Writer and C. Reader. Parsing \"papers\" well. 10.1234/ab. 2019.",
                900, Roman)>>)

Grid ==
    << <<S("Model"), <<>>, S("Acc ")>>,
       <<S("Ours"), S("x"), S("91")>>,
       <<<<>>, <<>>, <<>>>>,
       <<S("-"), <<>>, S("-")>> >>

\* a table whose extract() returns Grid, and one whose extract() raises
GoodTable == [raises |-> FALSE, extracted |-> Grid]

BadTable == [raises |-> TRUE, extracted |-> <<>>]

WithTables(file, p, tables) == [file EXCEPT !.pages[p].tables = tables]

\* a table with a row shorter than its header: row[i] raises IndexError
RaggedTable ==
    [raises |-> FALSE,
     extracted |-> << <<S("Model"), S("Acc")>>, <<S("Ours")>> >>]

SecondGrid == << <<S("Data"), S("Size")>>, <<S("GLUE"), S("9")>> >>

\* two failing tables, each followed by a table that is extracted
PaperFile ==
    WithTables(
        WithTables(FileOf(<< <<TitleBig, AbsHead, Body, Intro, Body, Caption>>,
                             <<Refs, RefEntry, RefEntry2>> >>),
                   1, [raises |-> FALSE, found |-> <<BadTable, GoodTable>>]),
        2, [raises |-> FALSE,
            found |-> <<RaggedTable, [raises |-> FALSE, extracted |-> SecondGrid]>>])

PlainFile == FileOf(<< <<Body>> >>)

\* a file on which page.find_tables raises
NoTablesFile ==
    WithTables(FileOf(<< <<Intro, Body, Methods, Body>>, <<Refs, RefEntry>> >>),
               1, [raises |-> TRUE, found |-> <<>>])

\* a file fitz does not open, pdfplumber does
BrokenFile == [FileOf(<< <<TitleBig, Body>> >>) EXCEPT !.opens = FALSE]

\* a file whose references section is the one character \u00b2
Footnote == Line(<<Chars(<<"P00B2">>, 900, Roman)>>)

FootnoteFile == FileOf(<< <<Intro, Body, Refs, Footnote>> >>)

PipeFiles == {PaperFile, PlainFile, NoTablesFile, BrokenFile, FootnoteFile}

\* ------------------------------------------------------------------------
\* The state of a function that has not been called (Idle), and of one
\* that no caller calls (Quiet)
\* ------------------------------------------------------------------------

RelIdle ==
    /\ rel_runs = <<>>
    /\ entities = <<>>
    /\ rel_pc = "idle"
    /\ limited = <<>>
    /\ relationships = <<>>
    /\ seen_pairs = {}
    /\ rel_i = 0
    /\ rel_j = 0

EntIdle ==
    /\ ent_runs = <<>>
    /\ section_type = ""
    /\ content = <<>>
    /\ ent_text = <<>>
    /\ seen = {}
    /\ ent_entities = <<>>
    /\ ent_pc = "idle"
    /\ ent_lib = 0

NoDocument == ParsedDocument(<<>>, 0)

NoSizes == [body_size |-> 0, heading_size |-> 0]

LayIdle ==
    /\ lay_runs = <<>>
    /\ lay_doc = NoDocument
    /\ lay_sizes = NoSizes
    /\ lay_text = <<>>
    /\ lay_language = ""
    /\ lay_sections = <<>>
    /\ current_section = <<>>
    /\ all_blocks = <<>>
    /\ lay_k = 0
    /\ lay_pc = "idle"

\* no caller of extract_relationships
RelQuiet ==
    /\ rel_input = <<>>
    /\ context = <<>>
    /\ rel_plan = <<>>
    /\ RelIdle

\* no caller of extract_entities
EntQuiet ==
    /\ ent_input = [section_type |-> "", content |-> <<>>]
    /\ ent_calls = 0
    /\ EntIdle

\* no caller of analyze_layout
LayQuiet ==
    /\ lay_input = NoDocument
    /\ lay_calls = 0
    /\ LayIdle

\* the paper row upload_paper adds
NewPaper ==
    [title |-> S("paper"), abstract |-> <<>>, language |-> "en", page_count |-> 0,
     parsing_status |-> "pending"]

\* no paper is uploaded
PipeQuiet ==
    /\ pdf = NoFile
    /\ paper = NewPaper
    /\ async_tasks = <<>>
    /\ paper_sections = <<>>
    /\ paper_tables = <<>>
    /\ paper_references = <<>>
    /\ pipe_pc = <<>>
    /\ parsed_doc = <<>>
    /\ sections_data = <<>>
    /\ pipe_error = <<>>

RefIdle ==
    /\ ref_runs = <<>>
    /\ ref_blocks = <<>>
    /\ ref_locals = NoReferences
    /\ ref_k = 0
    /\ ref_pc = "idle"

\* no caller of parse_references
RefQuiet ==
    /\ ref_input = <<>>
    /\ RefIdle

\* no caller of detect_language and classify_section
TxtQuiet ==
    /\ txt_input = <<>>
    /\ txt_language = <<>>
    /\ txt_type = <<>>

\* ------------------------------------------------------------------------
\* Reference texts
\* ------------------------------------------------------------------------

\* number of lines of a reference text
MaxRefLines == 3

RefLineMenu ==
    {S("[1] A. Author. A paper. 2020."),
     S("2. Lee K. Attention is enough. 1999"),
     S("Smith J. A long title here. Venue 2001."),
     S("Another reference without a year"),
     S("short line"),
     S(" "),
     <<"P00B2">>}

\* the example of the specification
SmithAndDoe == S("[1] Smith, J. and Doe, A. Deep Learning. NeurIPS, 2019.")

RefInputs ==
    {Join(<<"\n">>, ls) : ls \in UNION {[1..n -> RefLineMenu] : n \in 1..MaxRefLines}}
        \cup {<<>>, SmithAndDoe, S("x\n") \o SmithAndDoe}

\* ------------------------------------------------------------------------
\* Texts and headings
\* ------------------------------------------------------------------------

\* length of a text given to detect_language
MaxTextLen == 5

\* a CJK character, a Latin letter, a blank
TextAlphabet == {"U4E2D", "a", " "}

LanguageTexts == UNION {[1..n -> TextAlphabet] : n \in 0..MaxTextLen}

\* section names of SECTION_PATTERNS, and two names that are in no pattern
BareNames ==
    {S("Abstract"), <<"U6458", "U8981">>, S("Summary"), S("Introduction"),
     S("Related Work"), S("Background"), S("Methods"), S("Proposed Method"),
     S("Experiments"), S("Results and Discussion"), S("Discussion"),
     S("Conclusions"), S("Summary and Future Work"), S("Acknowledgments"),
     S("Appendix A"), S("References"), <<"U53C2", "U8003", "U6587", "U732E">>,
     S("Related"), S("Our Contribution")}

\* dotted decimals
DecimalPrefixes == {S("3.2 "), S("1. "), S("2"), S("1.2.3  "), S("10.1 ")}

\* Roman numerals and single-letter markers
OtherPrefixes == {S("II. "), S("IV "), S("A. "), S("B ")}

Headings ==
    BareNames
        \cup {p \o n : p \in DecimalPrefixes \cup OtherPrefixes, n \in BareNames}

TextInputs == LanguageTexts \cup Headings

\* ------------------------------------------------------------------------
\* analyze_layout, called by a caller on the document it holds
\* ------------------------------------------------------------------------

LayInit ==
    /\ lay_input \in LayInputs
    /\ lay_calls = LayCallsPerInput
    /\ LayIdle

\* if not doc.pages: return [], "en"
LayReturnEmpty ==
    /\ lay_pc = "idle"
    /\ lay_calls > 0
    /\ lay_input.pages = <<>>
    /\ lay_doc' = lay_input
    /\ lay_calls' = lay_calls - 1
    /\ lay_runs' = Append(lay_runs, Result(<<>>, "en"))
    /\ UNCHANGED <<lay_input, lay_sizes, lay_text, lay_language, lay_sections,
                   current_section, all_blocks, lay_k, lay_pc>>
    /\ UNCHANGED notLay

\* body_size, heading_size = find_heading_font_size(doc); full_text = ...;
\* language = detect_language(full_text); sections = []; current_section = None
LayBegin ==
    /\ lay_pc = "idle"
    /\ lay_calls > 0
    /\ lay_input.pages # <<>>
    /\ lay_doc' = lay_input
    /\ lay_calls' = lay_calls - 1
    /\ lay_sizes' = find_heading_font_size(lay_input)
    /\ \E full_text \in {FullTextOf(lay_input)} :
          /\ lay_text' = full_text
          /\ lay_language' = detect_language(full_text)
    /\ lay_sections' = <<>>
    /\ current_section' = <<>>
    /\ all_blocks' = <<>>
    /\ lay_k' = 0
    /\ lay_pc' = "title"
    /\ UNCHANGED <<lay_input, lay_runs>>
    /\ UNCHANGED notLay

\* first pass: find title (largest font on first page)
LayTitle ==
    /\ lay_pc = "title"
    /\ lay_sections' = lay_sections \o FirstPass(lay_doc, lay_sizes)
    /\ lay_pc' = "merge"
    /\ UNCHANGED <<lay_input, lay_calls, lay_runs, lay_doc, lay_sizes, lay_text,
                   lay_language, current_section, all_blocks, lay_k>>
    /\ UNCHANGED notLay

\* second pass: merge blocks per page
LayMerge ==
    /\ lay_pc = "merge"
    /\ all_blocks' = MergePages(lay_doc.pages, 1)
    /\ lay_k' = 1
    /\ lay_pc' = "blocks"
    /\ UNCHANGED <<lay_input, lay_calls, lay_runs, lay_doc, lay_sizes, lay_text,
                   lay_language, lay_sections, current_section>>
    /\ UNCHANGED notLay

\* for block in all_blocks: one iteration
LayBlock ==
    /\ lay_pc = "blocks"
    /\ lay_k <= Len(all_blocks)
    /\ \E st \in {BlockStep([sections |-> lay_sections, current |-> current_section],
                            all_blocks[lay_k], lay_sizes)} :
          /\ lay_sections' = st.sections
          /\ current_section' = st.current
    /\ lay_k' = lay_k + 1
    /\ UNCHANGED <<lay_input, lay_calls, lay_runs, lay_doc, lay_sizes, lay_text,
                   lay_language, all_blocks, lay_pc>>
    /\ UNCHANGED notLay

\* save last section
LaySaveLast ==
    /\ lay_pc = "blocks"
    /\ lay_k > Len(all_blocks)
    /\ lay_sections' = Saved([sections |-> lay_sections, current |-> current_section])
    /\ lay_pc' = "fallback"
    /\ UNCHANGED <<lay_input, lay_calls, lay_runs, lay_doc, lay_sizes, lay_text,
                   lay_language, current_section, all_blocks, lay_k>>
    /\ UNCHANGED notLay

\* if very few sections detected, try text-based fallback
LayFallback ==
    /\ lay_pc = "fallback"
    /\ lay_sections' = Fallback(lay_sections, lay_text, lay_language)
    /\ lay_pc' = "abstract"
    /\ UNCHANGED <<lay_input, lay_calls, lay_runs, lay_doc, lay_sizes, lay_text,
                   lay_language, current_section, all_blocks, lay_k>>
    /\ UNCHANGED notLay

\* try to extract abstract if not found
LayAbstract ==
    /\ lay_pc = "abstract"
    /\ lay_sections' = Abstract(lay_sections, lay_text)
    /\ lay_pc' = "full"
    /\ UNCHANGED <<lay_input, lay_calls, lay_runs, lay_doc, lay_sizes, lay_text,
                   lay_language, current_section, all_blocks, lay_k>>
    /\ UNCHANGED notLay

\* if still no sections at all, create a single full-text section
LayFullText ==
    /\ lay_pc = "full"
    /\ lay_sections' = FullText(lay_sections, lay_text, lay_doc)
    /\ lay_pc' = "return"
    /\ UNCHANGED <<lay_input, lay_calls, lay_runs, lay_doc, lay_sizes, lay_text,
                   lay_language, current_section, all_blocks, lay_k>>
    /\ UNCHANGED notLay

\* return sections, language
LayReturn ==
    /\ lay_pc = "return"
    /\ lay_runs' = Append(lay_runs, Result(lay_sections, lay_language))
    /\ lay_pc' = "idle"
    /\ UNCHANGED <<lay_input, lay_calls, lay_doc, lay_sizes, lay_text, lay_language,
                   lay_sections, current_section, all_blocks, lay_k>>
    /\ UNCHANGED notLay

LayNext ==
    LayReturnEmpty \/ LayBegin \/ LayTitle \/ LayMerge \/ LayBlock \/ LaySaveLast
        \/ LayFallback \/ LayAbstract \/ LayFullText \/ LayReturn

\* ------------------------------------------------------------------------
\* extract_entities, called by a caller on the section it holds
\* ------------------------------------------------------------------------

EntInit ==
    /\ ent_input \in EntInputs
    /\ ent_calls = CallsPerInput
    /\ EntIdle

\* if not content or len(content.strip()) < 30: return []
EntReturnEmpty ==
    /\ ent_pc = "idle"
    /\ ent_calls > 0
    /\ Not(ent_input.content) \/ Len(Strip(ent_input.content)) < 30
    /\ section_type' = ent_input.section_type
    /\ content' = ent_input.content
    /\ ent_calls' = ent_calls - 1
    /\ ent_runs' = Append(ent_runs, <<>>)
    /\ UNCHANGED <<ent_input, ent_text, seen, ent_entities, ent_pc, ent_lib>>
    /\ UNCHANGED notEnt

\* a call that starts from the seen set the call before it left
EntBegin_stale ==
    /\ ent_pc = "idle"
    /\ ent_calls > 0
    /\ ~(Not(ent_input.content) \/ Len(Strip(ent_input.content)) < 30)
    /\ section_type' = ent_input.section_type
    /\ content' = ent_input.content
    /\ ent_calls' = ent_calls - 1
    /\ ent_text' = Head12000(ent_input.content)
    /\ ent_entities' = <<>>
    /\ ent_pc' = "libraries"
    /\ ent_lib' = 1
    /\ UNCHANGED <<ent_input, ent_runs, seen>>
    /\ UNCHANGED notEnt

\* text = content[:12000]; seen = set(); entities = []
EntBegin ==
    /\ ent_pc = "idle"
    /\ ent_calls > 0
    /\ ~(Not(ent_input.content) \/ Len(Strip(ent_input.content)) < 30)
    /\ section_type' = ent_input.section_type
    /\ content' = ent_input.content
    /\ ent_calls' = ent_calls - 1
    /\ ent_text' = Head12000(ent_input.content)
    /\ seen' = {}
    /\ ent_entities' = <<>>
    /\ ent_pc' = "libraries"
    /\ ent_lib' = 1
    /\ UNCHANGED <<ent_input, ent_runs>>
    /\ UNCHANGED notEnt

\* entities.extend(_match_patterns(text, ..._PATTERNS, type, seen)), one of
\* the five calls
EntLibrary ==
    /\ ent_pc = "libraries"
    /\ \E acc \in {_match_patterns([out |-> ent_entities, seen |-> seen], ent_text,
                                   Libraries[ent_lib].patterns,
                                   Libraries[ent_lib].entity_type)} :
          /\ ent_entities' = acc.out
          /\ seen' = acc.seen
    /\ ent_lib' = ent_lib + 1
    /\ ent_pc' = IF ent_lib = Len(Libraries) THEN "generic" ELSE "libraries"
    /\ UNCHANGED <<ent_input, ent_calls, ent_runs, section_type, content, ent_text>>
    /\ UNCHANGED notEnt

\* for m in DATASET_GENERIC.finditer(text): ...
EntGeneric ==
    /\ ent_pc = "generic"
    /\ \E acc \in {GenericEach([out |-> ent_entities, seen |-> seen], ent_text,
                               RxFindIter(DATASET_GENERIC, ent_text, 1,
                                          Flags(TRUE, FALSE)), 1)} :
          /\ ent_entities' = acc.out
          /\ seen' = acc.seen
    /\ ent_pc' = "problems"
    /\ UNCHANGED <<ent_input, ent_calls, ent_runs, section_type, content, ent_text,
                   ent_lib>>
    /\ UNCHANGED notEnt

\* if section_type in ("abstract", "introduction", "other"): ...
EntProblems ==
    /\ ent_pc = "problems"
    /\ \E acc \in {IF section_type \in {"abstract", "introduction", "other"}
                   THEN _extract_research_problems(
                            [out |-> ent_entities, seen |-> seen], ent_text)
                   ELSE [out |-> ent_entities, seen |-> seen]} :
          /\ ent_entities' = acc.out
          /\ seen' = acc.seen
    /\ ent_pc' = "baselines"
    /\ UNCHANGED <<ent_input, ent_calls, ent_runs, section_type, content, ent_text,
                   ent_lib>>
    /\ UNCHANGED notEnt

\* the baseline heuristic run for every section type
EntBaselines_ungated ==
    /\ ent_pc = "baselines"
    /\ \E acc \in {_extract_baselines([out |-> ent_entities, seen |-> seen],
                                       ent_text)} :
          /\ ent_entities' = acc.out
          /\ seen' = acc.seen
    /\ ent_pc' = "return"
    /\ UNCHANGED <<ent_input, ent_calls, ent_runs, section_type, content, ent_text,
                   ent_lib>>
    /\ UNCHANGED notEnt

\* if section_type in ("experiments", "results", "discussion", "other"): ...
EntBaselines ==
    /\ ent_pc = "baselines"
    /\ \E acc \in {IF section_type \in {"experiments", "results", "discussion",
                                         "other"}
                   THEN _extract_baselines([out |-> ent_entities, seen |-> seen],
                                           ent_text)
                   ELSE [out |-> ent_entities, seen |-> seen]} :
          /\ ent_entities' = acc.out
          /\ seen' = acc.seen
    /\ ent_pc' = "return"
    /\ UNCHANGED <<ent_input, ent_calls, ent_runs, section_type, content, ent_text,
                   ent_lib>>
    /\ UNCHANGED notEnt

\* return entities
EntReturn ==
    /\ ent_pc = "return"
    /\ ent_runs' = Append(ent_runs, ent_entities)
    /\ ent_pc' = "idle"
    /\ UNCHANGED <<ent_input, ent_calls, section_type, content, ent_text, seen,
                   ent_entities, ent_lib>>
    /\ UNCHANGED notEnt

EntNext ==
    EntReturnEmpty \/ EntBegin \/ EntLibrary \/ EntGeneric \/ EntProblems
        \/ EntBaselines \/ EntReturn

\* ------------------------------------------------------------------------
\* extract_relationships.  The caller calls it on the list it holds ("all")
\* or on the first forty entries of that list ("head").
\* ------------------------------------------------------------------------

RelArgument(call) ==
    IF call = "all" THEN rel_input
    ELSE SubSeq(rel_input, 1, IF Len(rel_input) < 40 THEN Len(rel_input) ELSE 40)

RelInit ==
    /\ \E in \in RelInputs : rel_input = in[1] /\ context = in[2]
    /\ rel_plan = <<"all", "head">>
    /\ RelIdle

\* if not entities or len(entities) < 2: return []
RelReturnEmpty ==
    /\ rel_pc = "idle"
    /\ rel_plan # <<>>
    /\ Len(RelArgument(Head(rel_plan))) < 2
    /\ entities' = RelArgument(Head(rel_plan))
    /\ rel_plan' = Tail(rel_plan)
    /\ rel_runs' = Append(rel_runs, <<>>)
    /\ UNCHANGED <<rel_input, context, rel_pc, limited, relationships,
                   seen_pairs, rel_i, rel_j>>
    /\ UNCHANGED notRel

\* limited = entities[:40]; relationships = []; seen_pairs = set()
RelBegin ==
    /\ rel_pc = "idle"
    /\ rel_plan # <<>>
    /\ Len(RelArgument(Head(rel_plan))) >= 2
    /\ entities' = RelArgument(Head(rel_plan))
    /\ rel_plan' = Tail(rel_plan)
    /\ limited' = limit(entities')
    /\ relationships' = <<>>
    /\ seen_pairs' = {}
    /\ rel_i' = 1
    /\ rel_j' = 2
    /\ rel_pc' = "loop"
    /\ UNCHANGED <<rel_input, context, rel_runs>>
    /\ UNCHANGED notRel

\* one iteration of the nested loops that passes "if i >= j: continue"
RelIterate ==
    /\ rel_pc = "loop"
    /\ rel_i <= Len(limited)
    /\ \E st \in {RelPair(limited[rel_i], limited[rel_j], context,
                           [rels |-> relationships, seen |-> seen_pairs])} :
          /\ relationships' = st.rels
          /\ seen_pairs' = st.seen
    /\ \E nx \in {NextPair(rel_i, rel_j, Len(limited))} :
          /\ rel_i' = nx[1]
          /\ rel_j' = nx[2]
    /\ UNCHANGED <<rel_input, context, rel_plan, rel_runs, entities, rel_pc,
                   limited>>
    /\ UNCHANGED notRel

\* return relationships
RelReturn ==
    /\ rel_pc = "loop"
    /\ rel_i > Len(limited)
    /\ rel_runs' = Append(rel_runs, relationships)
    /\ rel_pc' = "idle"
    /\ UNCHANGED <<rel_input, context, rel_plan, entities, limited,
                   relationships, seen_pairs, rel_i, rel_j>>
    /\ UNCHANGED notRel

RelNext == RelReturnEmpty \/ RelBegin \/ RelIterate \/ RelReturn

\* ------------------------------------------------------------------------
\* The parse triggers of one paper and run_parsing_pipeline, one action
\* per commit of a run
\* ------------------------------------------------------------------------

\* a task is created and run_parsing_pipeline launched for it
Launched ==
    /\ async_tasks' = create_task_record(async_tasks)
    /\ pipe_pc' = Append(pipe_pc, "start")
    /\ parsed_doc' = Append(parsed_doc, <<>>)
    /\ sections_data' = Append(sections_data, <<>>)
    /\ pipe_error' = Append(pipe_error, <<>>)

\* upload_paper has added the paper and launched the first task
PipeInit ==
    /\ pdf \in PipeFiles
    /\ paper = NewPaper
    /\ async_tasks = create_task_record(<<>>)
    /\ paper_sections = <<>>
    /\ paper_tables = <<>>
    /\ paper_references = <<>>
    /\ pipe_pc = <<"start">>
    /\ parsed_doc = <<<<>>>>
    /\ sections_data = <<<<>>>>
    /\ pipe_error = <<<<>>>>

\* POST /{paper_id}/start, not answered with 409
StartParsing ==
    /\ Len(async_tasks) < MaxTasks
    /\ paper.parsing_status # "parsing"
    /\ paper' = [paper EXCEPT !.parsing_status = "pending"]
    /\ Launched
    /\ UNCHANGED <<pdf, paper_sections, paper_tables, paper_references>>
    /\ UNCHANGED notPipe

\* POST /{paper_id}/reparse
Reparse ==
    /\ Len(async_tasks) < MaxTasks
    /\ paper_sections' = <<>>
    /\ paper_references' = <<>>
    /\ paper_tables' = <<>>
    /\ paper' = [paper EXCEPT !.parsing_status = "pending"]
    /\ Launched
    /\ UNCHANGED pdf
    /\ UNCHANGED notPipe

\* paper.parsing_status = "parsing"
PipeBegin(t) ==
    /\ pipe_pc[t] = "start"
    /\ paper' = [paper EXCEPT !.parsing_status = "parsing"]
    /\ pipe_pc' = [pipe_pc EXCEPT ![t] = "parse"]
    /\ UNCHANGED <<pdf, async_tasks, paper_sections, paper_tables, paper_references,
                   parsed_doc, sections_data, pipe_error>>
    /\ UNCHANGED notPipe

\* Step 1: parse PDF
PipeParse(t) ==
    /\ pipe_pc[t] = "parse"
    /\ \E res \in {parse_pdf(pdf)} :
          /\ ~res.raised
          /\ parsed_doc' = [parsed_doc EXCEPT ![t] = <<res.value>>]
          /\ paper' = [paper EXCEPT !.page_count = res.value.page_count]
    /\ async_tasks' = update_task_progress(async_tasks, t, 10, "Parsing PDF structure...")
    /\ pipe_pc' = [pipe_pc EXCEPT ![t] = "layout"]
    /\ UNCHANGED <<pdf, paper_sections, paper_tables, paper_references, sections_data,
                   pipe_error>>
    /\ UNCHANGED notPipe

\* Step 1, parse_pdf raising
PipeParseRaises(t) ==
    /\ pipe_pc[t] = "parse"
    /\ \E res \in {parse_pdf(pdf)} :
          /\ res.raised
          /\ pipe_error' = [pipe_error EXCEPT ![t] = <<res.error>>]
    /\ async_tasks' = update_task_progress(async_tasks, t, 10, "Parsing PDF structure...")
    /\ pipe_pc' = [pipe_pc EXCEPT ![t] = "except"]
    /\ UNCHANGED <<pdf, paper, paper_sections, paper_tables, paper_references,
                   parsed_doc, sections_data>>
    /\ UNCHANGED notPipe

\* Step 2: analyze layout and detect sections
PipeLayout(t) ==
    /\ pipe_pc[t] = "layout"
    /\ \E result \in {analyze_layout(parsed_doc[t][1])} :
          /\ sections_data' = [sections_data EXCEPT ![t] = result.sections]
          /\ paper' = Described(paper, result)
    /\ async_tasks' = update_task_progress(async_tasks, t, 30, "Analyzing document layout...")
    /\ pipe_pc' = [pipe_pc EXCEPT ![t] = "sections"]
    /\ UNCHANGED <<pdf, paper_sections, paper_tables, paper_references, parsed_doc,
                   pipe_error>>
    /\ UNCHANGED notPipe

\* Step 3: store sections
PipeSections(t) ==
    /\ pipe_pc[t] = "sections"
    /\ paper_sections' = paper_sections \o SectionRows(t, sections_data[t])
    /\ async_tasks' = update_task_progress(async_tasks, t, 50, "Storing parsed sections...")
    /\ pipe_pc' = [pipe_pc EXCEPT ![t] = "tables"]
    /\ UNCHANGED <<pdf, paper, paper_tables, paper_references, parsed_doc,
                   sections_data, pipe_error>>
    /\ UNCHANGED notPipe

\* Step 4: extract tables; an exception is printed as a warning
PipeTables(t) ==
    /\ pipe_pc[t] = "tables"
    /\ paper_tables' = paper_tables \o TableRows(t, extract_tables_from_pdf(pdf))
    /\ async_tasks' = update_task_progress(async_tasks, t, 70, "Extracting tables...")
    /\ pipe_pc' = [pipe_pc EXCEPT ![t] = "references"]
    /\ UNCHANGED <<pdf, paper, paper_sections, paper_references, parsed_doc,
                   sections_data, pipe_error>>
    /\ UNCHANGED notPipe

\* ref_sections = [s for s in sections_data if s["section_type"] == "references"]
ref_sections(t) ==
    SelectSeq(sections_data[t], LAMBDA s : s.section_type = "references")

\* Step 5: parse references
PipeReferences(t) ==
    /\ pipe_pc[t] = "references"
    /\ ~refs_data(ref_sections(t)).raised
    /\ paper_references' = paper_references \o ReferenceRows(t, ref_sections(t))
    /\ async_tasks' = update_task_progress(async_tasks, t, 85, "Parsing references...")
    /\ pipe_pc' = [pipe_pc EXCEPT ![t] = "finish"]
    /\ UNCHANGED <<pdf, paper, paper_sections, paper_tables, parsed_doc,
                   sections_data, pipe_error>>
    /\ UNCHANGED notPipe

\* Step 5, parse_references raising
PipeReferencesRaise(t) ==
    /\ pipe_pc[t] = "references"
    /\ \E res \in {refs_data(ref_sections(t))} :
          /\ res.raised
          /\ pipe_error' = [pipe_error EXCEPT ![t] = <<res.error>>]
    /\ async_tasks' = update_task_progress(async_tasks, t, 85, "Parsing references...")
    /\ pipe_pc' = [pipe_pc EXCEPT ![t] = "except"]
    /\ UNCHANGED <<pdf, paper, paper_sections, paper_tables, paper_references,
                   parsed_doc, sections_data>>
    /\ UNCHANGED notPipe

\* paper.parsing_status = "completed"; complete_task(db, task_id)
PipeDone(t) ==
    /\ pipe_pc[t] = "finish"
    /\ paper' = [paper EXCEPT !.parsing_status = "completed"]
    /\ async_tasks' = complete_task(async_tasks, t)
    /\ pipe_pc' = [pipe_pc EXCEPT ![t] = "done"]
    /\ UNCHANGED <<pdf, paper_sections, paper_tables, paper_references, parsed_doc,
                   sections_data, pipe_error>>
    /\ UNCHANGED notPipe

\* except Exception as e: paper.parsing_status = "failed"; fail_task(..., str(e))
PipeExcept(t) ==
    /\ pipe_pc[t] = "except"
    /\ paper' = [paper EXCEPT !.parsing_status = "failed"]
    /\ async_tasks' = fail_task(async_tasks, t, pipe_error[t][1])
    /\ pipe_pc' = [pipe_pc EXCEPT ![t] = "done"]
    /\ UNCHANGED <<pdf, paper_sections, paper_tables, paper_references, parsed_doc,
                   sections_data, pipe_error>>
    /\ UNCHANGED notPipe

\* the tasks created so far
Tasks == 1..Len(async_tasks)

PipeNext ==
    \/ StartParsing
    \/ Reparse
    \/ \E t \in Tasks : PipeBegin(t)
    \/ \E t \in Tasks : PipeParse(t)
    \/ \E t \in Tasks : PipeParseRaises(t)
    \/ \E t \in Tasks : PipeLayout(t)
    \/ \E t \in Tasks : PipeSections(t)
    \/ \E t \in Tasks : PipeTables(t)
    \/ \E t \in Tasks : PipeReferences(t)
    \/ \E t \in Tasks : PipeReferencesRaise(t)
    \/ \E t \in Tasks : PipeDone(t)
    \/ \E t \in Tasks : PipeExcept(t)


\* the positions of a run
PcValues ==
    {"start", "parse", "layout", "sections", "tables", "references", "finish",
     "except", "done"}

\* the run of task t, on its thread of the executor, leaves the position it
\* is at; a run that has not ended has a step at every position
Advance(t) ==
    /\ t \in Tasks
    /\ pipe_pc[t] # "done"
    /\ \E pc \in PcValues \ {pipe_pc[t]} : pipe_pc' = [pipe_pc EXCEPT ![t] = pc]
\* ------------------------------------------------------------------------
\* parse_references, called by a caller on the text it holds
\* ------------------------------------------------------------------------

RefInit ==
    /\ ref_input \in RefInputs
    /\ RefIdle

\* references = []; ref_blocks = re.split(...); current_ref = ""; ref_num = 0
RefBegin ==
    /\ ref_pc = "idle"
    /\ ref_runs = <<>>
    /\ ref_blocks' = SplitMarkers(ref_input)
    /\ ref_locals' = NoReferences
    /\ ref_k' = 1
    /\ ref_pc' = "blocks"
    /\ UNCHANGED <<ref_input, ref_runs>>
    /\ UNCHANGED notRef

\* one iteration of: for block in ref_blocks
RefBlockStep ==
    /\ ref_pc = "blocks"
    /\ ref_k <= Len(ref_blocks)
    /\ \E st \in {RefBlock(ref_locals, ref_blocks[ref_k])} :
          /\ st.error = <<>>
          /\ ref_locals' = st
    /\ ref_k' = ref_k + 1
    /\ UNCHANGED <<ref_input, ref_runs, ref_blocks, ref_pc>>
    /\ UNCHANGED notRef

\* the iteration in which int(block.strip()) raises ValueError
RefBlockRaises ==
    /\ ref_pc = "blocks"
    /\ ref_k <= Len(ref_blocks)
    /\ \E st \in {RefBlock(ref_locals, ref_blocks[ref_k])} :
          /\ st.error # <<>>
          /\ ref_locals' = st
          /\ ref_runs' = Append(ref_runs, Raised(st.error[1]))
    /\ ref_pc' = "idle"
    /\ UNCHANGED <<ref_input, ref_blocks, ref_k>>
    /\ UNCHANGED notRef

\* if current_ref.strip(): references.append(...)
RefFlush ==
    /\ ref_pc = "blocks"
    /\ ref_k > Len(ref_blocks)
    /\ ref_locals' = [ref_locals EXCEPT !.references = Flushed(ref_locals)]
    /\ ref_pc' = "lines"
    /\ UNCHANGED <<ref_input, ref_runs, ref_blocks, ref_k>>
    /\ UNCHANGED notRef

\* if not references: one reference per line longer than 20
RefFallback ==
    /\ ref_pc = "lines"
    /\ ref_locals' = [ref_locals EXCEPT
                        !.references = Structured(ref_input, ref_locals.references)]
    /\ ref_pc' = "return"
    /\ UNCHANGED <<ref_input, ref_runs, ref_blocks, ref_k>>
    /\ UNCHANGED notRef

\* return references
RefReturn ==
    /\ ref_pc = "return"
    /\ ref_runs' = Append(ref_runs, Returned(ref_locals.references))
    /\ ref_pc' = "idle"
    /\ UNCHANGED <<ref_input, ref_blocks, ref_locals, ref_k>>
    /\ UNCHANGED notRef

RefNext ==
    RefBegin \/ RefBlockStep \/ RefBlockRaises \/ RefFlush \/ RefFallback \/ RefReturn

\* ------------------------------------------------------------------------
\* detect_language and classify_section, called by a caller on the text it
\* holds
\* ------------------------------------------------------------------------

TxtInit ==
    /\ txt_input \in TextInputs
    /\ txt_language = <<>>
    /\ txt_type = <<>>

\* language = detect_language(text)
DetectLanguage ==
    /\ txt_language = <<>>
    /\ txt_language' = <<detect_language(txt_input)>>
    /\ UNCHANGED <<txt_input, txt_type>>
    /\ UNCHANGED notTxt

\* section_type = classify_section(heading_text)
ClassifySection ==
    /\ txt_type = <<>>
    /\ txt_type' = <<classify_section(txt_input)>>
    /\ UNCHANGED <<txt_input, txt_language>>
    /\ UNCHANGED notTxt

TxtNext == DetectLanguage \/ ClassifySection

\* ------------------------------------------------------------------------
\* Specifications
\* ------------------------------------------------------------------------

\* extract_relationships alone
InitRel == RelInit /\ EntQuiet /\ LayQuiet /\ PipeQuiet /\ RefQuiet /\ TxtQuiet

SpecRel == InitRel /\ [][RelNext]_vars

\* extract_entities alone
InitEnt == EntInit /\ RelQuiet /\ LayQuiet /\ PipeQuiet /\ RefQuiet /\ TxtQuiet

SpecEnt == InitEnt /\ [][EntNext]_vars

\* analyze_layout alone
InitLayout == LayInit /\ RelQuiet /\ EntQuiet /\ PipeQuiet /\ RefQuiet /\ TxtQuiet

SpecLayout == InitLayout /\ [][LayNext]_vars

\* the parsing pipeline of one uploaded paper
Init == PipeInit /\ RelQuiet /\ EntQuiet /\ LayQuiet /\ RefQuiet /\ TxtQuiet

Next == PipeNext

Spec == Init /\ [][Next]_vars

\* the pipeline when the executor, of four threads for at most MaxTasks
\* runs, lets every launched run that has not ended take a step
FairSpec == Init /\ [][Next]_vars /\ \A t \in 1..MaxTasks : WF_pipe_pc(Advance(t))

\* each of the three functions called more than once on one input
InitDet ==
    \/ LayInit /\ RelQuiet /\ EntQuiet /\ PipeQuiet /\ RefQuiet /\ TxtQuiet
    \/ EntInit /\ RelQuiet /\ LayQuiet /\ PipeQuiet /\ RefQuiet /\ TxtQuiet
    \/ RelInit /\ EntQuiet /\ LayQuiet /\ PipeQuiet /\ RefQuiet /\ TxtQuiet

NextDet == LayNext \/ EntNext \/ RelNext

SpecDet == InitDet /\ [][NextDet]_vars

\* parse_references called on a text
InitRef == RefInit /\ RelQuiet /\ EntQuiet /\ LayQuiet /\ PipeQuiet /\ TxtQuiet

SpecRef == InitRef /\ [][RefNext]_vars

\* detect_language and classify_section called on a text
InitText == TxtInit /\ RelQuiet /\ EntQuiet /\ LayQuiet /\ PipeQuiet /\ RefQuiet

SpecText == InitText /\ [][TxtNext]_vars

\* ------------------------------------------------------------------------
\* Properties of extract_relationships
\* ------------------------------------------------------------------------

\* the list the r-th call of the caller's plan passed
RunArgument(r) == RelArgument(<<"all", "head">>[r])

\* the unordered pair of case-insensitive entity texts a relationship is over
Unordered(rel) == {Lower(rel.source), Lower(rel.target)}

\* C4: a list returned by extract_relationships holds no two relationships
\* over the same unordered pair of case-insensitive entity texts, also when
\* the entity list holds the same text more than once.
C4_NoDuplicatePair ==
    \A r \in 1..Len(rel_runs) :
        \A a, b \in 1..Len(rel_runs[r]) :
            a # b => Unordered(rel_runs[r][a]) # Unordered(rel_runs[r][b])

\* what the claim expects for the entities e1 before e2 of the list: the
\* relationship of the first template that matches, e1 as {src} tried first
Expected(e1, e2, ctx) ==
    IF _check_pattern_relation(e1.text, e2.text, ctx) # ""
    THEN <<Relationship(e1.text, e2.text,
                        _check_pattern_relation(e1.text, e2.text, ctx), 70)>>
    ELSE IF _check_pattern_relation(e2.text, e1.text, ctx) # ""
    THEN <<Relationship(e2.text, e1.text,
                        _check_pattern_relation(e2.text, e1.text, ctx), 70)>>
    ELSE <<>>

\* the relationships of a returned list over the texts of e1 and e2
Over(rels, e1, e2) ==
    SelectSeq(rels, LAMBDA rel : Unordered(rel) = {Lower(e1.text), Lower(e2.text)})

\* C5: for an entity pair one of whose templates matches the context in
\* either orientation the returned list holds exactly one relationship over
\* the pair: confidence 0.7, the type of the first matching template, the
\* forward orientation tried first, source and target as the template was
\* filled, and no relationship of confidence 0.5.
C5_TemplateRelationship ==
    \A r \in 1..Len(rel_runs) :
        rel_pc = "idle" =>
            \A a, b \in 1..Len(limit(RunArgument(r))) :
                (a < b /\ Expected(RunArgument(r)[a], RunArgument(r)[b], context) # <<>>)
                    => Over(rel_runs[r], RunArgument(r)[a], RunArgument(r)[b])
                         = Expected(RunArgument(r)[a], RunArgument(r)[b], context)

\* the entity texts at two different positions among the first forty
FromFirstForty(rel, list) ==
    \E a, b \in 1..Len(list) :
        /\ a # b
        /\ a <= 40
        /\ b <= 40
        /\ rel.source = list[a].text
        /\ rel.target = list[b].text

\* C6: every returned relationship has as source and target the texts of two
\* entities at different positions among the first 40 of the input list; the
\* call on E returns what the call on E[:40] returns; fewer than 2 entities
\* give no relationship.
C6_FirstForty ==
    /\ \A r \in 1..Len(rel_runs) :
          \A k \in 1..Len(rel_runs[r]) : FromFirstForty(rel_runs[r][k], rel_input)
    /\ Len(rel_runs) = 2 => rel_runs[1] = rel_runs[2]
    /\ (Len(rel_runs) >= 1 /\ Len(rel_input) < 2) => rel_runs[1] = <<>>

\* both calls have returned for a list of more than forty entities, with a
\* relationship found
C6_Witness ==
    /\ Len(rel_input) > 40
    /\ Len(rel_runs) = 2
    /\ rel_runs[1] # <<>>

\* ------------------------------------------------------------------------
\* Properties of extract_entities
\* ------------------------------------------------------------------------

\* no two entities of the list have texts equal after lower-casing
DistinctKeys(list) ==
    \A a, b \in 1..Len(list) :
        a # b => Lower(list[a].text) # Lower(list[b].text)

\* C7: within one call of extract_entities no two returned entities have
\* texts that are equal after lower-casing, whichever stages emitted them.
C7_DistinctKeys == \A r \in 1..Len(ent_runs) : DistinctKeys(ent_runs[r])

\* the positions of the content at which word occurs in some letter case
Occurrences(word, body) ==
    {i \in 1..Len(body) :
        /\ i + Len(word) - 1 <= Len(body)
        /\ Lower(SubSeq(body, i, i + Len(word) - 1)) = word}

\* a call has returned for a content that names imagenet twice, to a library
\* pattern and to the generic dataset pattern, and has returned it
C7_Witness ==
    /\ Len(ent_runs) >= 1
    /\ Cardinality(Occurrences(S("imagenet"), ent_input.content)) >= 2
    /\ \E k \in 1..Len(ent_runs[1]) : Lower(ent_runs[1][k].text) = S("imagenet")

\* the calls made so far have each returned a list, but the one in progress
EveryCallReturns ==
    Len(ent_runs) + ent_calls + (IF ent_pc = "idle" THEN 0 ELSE 1) = CallsPerInput

\* C16: extract_entities returns an empty list, and raises nothing, for
\* every section_type when content is empty, None or shorter than 30
\* characters; for longer content it returns a list without raising, and
\* only the first 12,000 characters of content contribute entities.
C16_FailsClosed ==
    /\ EveryCallReturns
    /\ \A r \in 1..Len(ent_runs) :
          /\ Not(ent_input.content) \/ Len(ent_input.content) < 30
                => ent_runs[r] = <<>>
          /\ \A k \in 1..Len(ent_runs[r]) :
                Occurrences(Lower(ent_runs[r][k].text),
                            SubSeq(ent_input.content, 1,
                                   MinOf({12000, Len(ent_input.content)}))) # {}
          /\ ent_input.content = LongContent
                => \A k \in 1..Len(ent_runs[r]) : ent_runs[r][k].text # S("LSTM")

\* a call has returned for the content that names LSTM after its 12,000th
\* character, with the entities of the sentence before it
C16_Witness ==
    /\ ent_input.content = LongContent
    /\ Len(ent_runs) >= 1
    /\ \E k \in 1..Len(ent_runs[1]) : ent_runs[1][k].text = S("BERT")
    /\ Occurrences(S("lstm"), ent_input.content) # {}


\* an entity of a gated type is of a section type its heuristic runs for,
\* and a baseline does not start with a lowercase letter
Gated(entity, stype) ==
    /\ entity.entity_type = "research_problem"
          => stype \in {"abstract", "introduction", "other"}
    /\ entity.entity_type = "baseline"
          => /\ stype \in {"experiments", "results", "discussion", "other"}
             /\ entity.text # <<>>
             /\ entity.text[1] \notin Lowers

\* C25: extract_entities emits a research_problem only when section_type is
\* abstract, introduction or other, and a baseline only when it is
\* experiments, results, discussion or other; for every other section type
\* neither is emitted, and the text of a baseline never starts with a
\* lowercase letter.
C25_GatedHeuristics ==
    \A r \in 1..Len(ent_runs) :
        \A k \in 1..Len(ent_runs[r]) : Gated(ent_runs[r][k], ent_input.section_type)

\* a call on an experiments section that lists a baseline in lowercase
\* among its baselines has returned baselines, and no research problem
C25_Witness ==
    /\ Len(ent_runs) >= 1
    /\ ent_input.section_type = "experiments"
    /\ Occurrences(S(", our parser and"), ent_input.content) # {}
    /\ Occurrences(S("we address the problem"), ent_input.content) # {}
    /\ \E k \in 1..Len(ent_runs[1]) :
          ent_runs[1][k].entity_type = "baseline" /\ ent_runs[1][k].text = S("CRF")

\* the stage that emits entities of a type and confidence, 0 if none does
StageOf(entity) ==
    CASE entity.confidence = 80 /\ entity.entity_type = "dataset" -> 1
      [] entity.confidence = 80 /\ entity.entity_type = "metric" -> 2
      [] entity.confidence = 80 /\ entity.entity_type = "method" -> 3
      [] entity.confidence = 80 /\ entity.entity_type = "tool" -> 4
      [] entity.confidence = 80 /\ entity.entity_type = "theory" -> 5
      [] entity.confidence = 65 /\ entity.entity_type = "dataset" -> 6
      [] entity.confidence = 60 /\ entity.entity_type = "research_problem" -> 7
      [] entity.confidence = 60 /\ entity.entity_type = "baseline" -> 8
      [] OTHER -> 0

NoneSeen == [out |-> <<>>, seen |-> {}]

\* the library patterns of each of the five types
PatternsOf ==
    <<DATASET_PATTERNS, METRIC_PATTERNS, METHOD_PATTERNS, TOOL_PATTERNS,
      THEORY_PATTERNS>>

\* the lower-cased texts the stages 1 to 6 match in a text, each stage run
\* on its own
KeysByStage(txt) ==
    [st \in 1..6 |->
        IF st <= 5
        THEN _match_patterns(NoneSeen, txt, PatternsOf[st], "").seen
        ELSE GenericEach(NoneSeen, txt,
                         RxFindIter(DATASET_GENERIC, txt, 1, Flags(TRUE, FALSE)),
                         1).seen]

\* no stage before the one that emitted the entity matched its text
Earliest(list, keys) ==
    \A k \in 1..Len(list) :
        \A st \in 1..6 : st < StageOf(list[k]) => Lower(list[k].text) \notin keys[st]

ByStage(list) ==
    /\ \A k \in 1..Len(list) :
          StageOf(list[k]) # 0 /\ list[k].confidence \in 0..100
    /\ \A a, b \in 1..Len(list) : a < b => StageOf(list[a]) <= StageOf(list[b])
    /\ DistinctKeys(list)

\* C26: extract_entities runs the dataset, metric, method, tool and theory
\* libraries (confidence 0.8), the generic dataset pattern (0.65), the
\* research-problem heuristic and the baseline heuristic (0.6) in that
\* order; a text several stages match is emitted once, with the type and
\* confidence of the earliest stage that matched it; the returned list is
\* ordered by stage and every confidence is 0.8, 0.65 or 0.6.
C26_StageOrder ==
    /\ \A r \in 1..Len(ent_runs) : ByStage(ent_runs[r])
    /\ (ent_calls = 0 /\ ent_pc = "idle" /\ ent_runs # <<>>
            /\ ent_runs[Len(ent_runs)] # <<>>)
          => Earliest(ent_runs[Len(ent_runs)],
                      KeysByStage(SubSeq(ent_input.content, 1,
                                         MinOf({12000, Len(ent_input.content)}))))

\* the calls have returned, for a content that lists LSTM, a method of the
\* library, among the baselines: LSTM as a method, before the baselines
C26_Witness ==
    /\ ent_calls = 0
    /\ ent_pc = "idle"
    /\ ent_input.section_type = "experiments"
    /\ Occurrences(S("baselines include lstm,"), ent_input.content) # {}
    /\ \E k \in 1..Len(ent_runs[1]) :
          /\ ent_runs[1][k].text = S("LSTM")
          /\ StageOf(ent_runs[1][k]) = 3
          /\ \E b \in (k + 1)..Len(ent_runs[1]) : StageOf(ent_runs[1][b]) = 8
\* ------------------------------------------------------------------------
\* Properties of extract_relationships: the two paths
\* ------------------------------------------------------------------------

\* no template relates the two texts in the context, in either orientation
NoTemplate(a_text, b_text, ctx) ==
    /\ _check_pattern_relation(a_text, b_text, ctx) = ""
    /\ _check_pattern_relation(b_text, a_text, ctx) = ""

\* the two texts occur in the context with start offsets less than 250
\* characters apart
Within250(a_text, b_text, ctx) ==
    \E p1 \in Occurrences(Lower(a_text), ctx) :
        \E p2 \in Occurrences(Lower(b_text), ctx) :
            p1 - p2 < 250 /\ p2 - p1 < 250

\* rel is the relationship the type table gives for src and tgt
ByType(rel, src, tgt, ctx) ==
    /\ rel.source = src.text
    /\ rel.target = tgt.text
    /\ TYPE_RELATIONS(src.entity_type, tgt.entity_type) = rel.relation_type
    /\ rel.relation_type # ""
    /\ Within250(src.text, tgt.text, ctx)
    /\ NoTemplate(src.text, tgt.text, ctx)

\* rel is the relationship a template gives for src and tgt
ByTemplate(rel, src, tgt, ctx) ==
    /\ rel.source = src.text
    /\ rel.target = tgt.text
    /\ _check_pattern_relation(src.text, tgt.text, ctx) = rel.relation_type
    /\ rel.relation_type # ""

OnePath(rel, list, ctx) ==
    \/ /\ rel.confidence = 50
       /\ \E a, b \in 1..Len(list) : a # b /\ ByType(rel, list[a], list[b], ctx)
    \/ /\ rel.confidence = 70
       /\ \E a, b \in 1..Len(list) : a # b /\ ByTemplate(rel, list[a], list[b], ctx)

\* C24: a relationship of confidence 0.5 is emitted for a pair only when no
\* template matched in either orientation, the two texts occur in the
\* context with start offsets less than 250 apart and the pair of entity
\* types, in one orientation, is a key of the type table; its type is the
\* value of the table and its source the entity whose type is the first
\* component of the key. Every relationship comes of one of the two paths,
\* and its confidence is 0.7 or 0.5.
C24_CoOccurrencePath ==
    \A r \in 1..Len(rel_runs) :
        \A k \in 1..Len(rel_runs[r]) :
            OnePath(rel_runs[r][k], limit(RunArgument(r)), context)

\* a call on the list GLUE, BERT has returned the relationship of the type
\* table, BERT as its source
C24_Witness ==
    /\ Len(rel_runs) >= 1
    /\ rel_input = <<Entity("GLUE", "dataset"), Entity("BERT", "method")>>
    /\ rel_runs[1] = <<Relationship(S("BERT"), S("GLUE"), "evaluates_on", 50)>>


\* the relationship relates a text to itself, letter case apart
SelfLoop(rel) == Lower(rel.source) = Lower(rel.target)

\* C29: no relationship extract_relationships returns has a source and a
\* target that are equal case-insensitively, also when the entity list
\* holds the same text twice, as the list run_entity_extraction collects
\* from the sections does.
C29_NoSelfLoop ==
    \A r \in 1..Len(rel_runs) :
        \A k \in 1..Len(rel_runs[r]) : ~SelfLoop(rel_runs[r][k])
\* ------------------------------------------------------------------------
\* Properties of analyze_layout
\* ------------------------------------------------------------------------

\* C1 as stated: for every ParsedDocument passed to analyze_layout the
\* returned section list is non-empty.
C1_NonEmpty == \A r \in 1..Len(lay_runs) : lay_runs[r].sections # <<>>

\* C1: for every ParsedDocument with at least one page passed to
\* analyze_layout the returned section list is non-empty.
C1_NonEmptyWithPages ==
    \A r \in 1..Len(lay_runs) :
        lay_input.pages # <<>> => lay_runs[r].sections # <<>>

\* a call has returned for a document with pages in which nothing was
\* found, and has returned the full text section alone
C1_Witness ==
    /\ Len(lay_runs) >= 1
    /\ lay_input.pages # <<>>
    /\ lay_runs[1].sections
          = <<Section("other", S("Full Text"), FullTextOf(lay_input), 0,
                      lay_input.page_count - 1)>>

\* signals a to d find a heading in the block
BlockHeading(block, txt, sizes) ==
    txt # <<>> /\ IsHeading(block, txt, sizes, classify_section(txt))

\* the line-based scan finds a heading in the line
LineHeading(stripped) ==
    /\ stripped # <<>>
    /\ LineType(stripped, classify_section(stripped)) # "other"
    /\ Len(stripped) < ShortLength

NoHeadingIn(blocks, sizes, lines) ==
    /\ \A k \in 1..Len(blocks) : ~BlockHeading(blocks[k], Strip(blocks[k].text), sizes)
    /\ \A k \in 1..Len(lines) : ~LineHeading(Strip(lines[k]))

\* heading detection finds no heading in the document
NoHeading(doc) ==
    NoHeadingIn(MergePages(doc.pages, 1), find_heading_font_size(doc),
                SplitLines(FullTextOf(doc), 1))

Others(secs) == SelectSeq(secs, LAMBDA s : s.section_type = "other")

ExactlyFullText(others, full_text) ==
    Len(others) = 1 /\ others[1].content = full_text

\* C2: for a document (with pages) in which heading detection finds no
\* heading, analyze_layout returns exactly one section of type other, whose
\* content is the full text of the document, whether or not a title or an
\* abstract section is returned as well.
C2_FullTextSection ==
    \A r \in 1..Len(lay_runs) :
        (lay_input.pages # <<>> /\ NoHeading(lay_input))
            => ExactlyFullText(Others(lay_runs[r].sections), FullTextOf(lay_input))


\* the largest font size of the fragments of a page, body_size without one
Largest(blocks, body_size) ==
    IF blocks = <<>> THEN body_size
    ELSE CHOOSE f \in {blocks[i].font_size : i \in 1..Len(blocks)} :
            \A i \in 1..Len(blocks) : blocks[i].font_size <= f

\* the fragments of a page less than 1.0pt from a size, in page order
Within1pt(blocks, size) ==
    SelectSeq(blocks, LAMBDA b : b.font_size - size < 100 /\ size - b.font_size < 100)

\* the texts of at most the first five of the fragments, joined by blanks
FirstFive(near) ==
    Strip(Join(<<" ">>, [i \in 1..MinOf({5, Len(near)}) |-> near[i].text]))

TitleAsStated(secs, blocks, sizes) ==
    /\ \A i \in 1..Len(secs) : secs[i].section_type = "title" => i = 1
    /\ (secs # <<>> /\ secs[1].section_type = "title")
          <=> Largest(blocks, sizes.body_size) > sizes.heading_size
    /\ (secs # <<>> /\ secs[1].section_type = "title") =>
          /\ secs[1].page_start = 0
          /\ secs[1].page_end = 0
          /\ secs[1].heading
                = FirstFive(Within1pt(blocks, Largest(blocks, sizes.body_size)))
          /\ secs[1].content = secs[1].heading

\* C17: the list analyze_layout returns has at most one title section; when
\* present it is the first element, has page_start = page_end = 0, and it
\* is present exactly when the largest fragment font size of page 0 is
\* greater than heading_size, built of at most 5 fragments within 1.0pt of
\* that size. No step after the first pass adds or removes a title.
C17_TitleSection ==
    /\ lay_pc \in {"merge", "blocks", "fallback", "abstract", "full", "return"}
          => TitleAsStated(lay_sections, lay_doc.pages[1].blocks, lay_sizes)
    /\ \A r \in 1..Len(lay_runs) :
          lay_input.pages # <<>>
              => TitleAsStated(lay_runs[r].sections, lay_input.pages[1].blocks,
                               find_heading_font_size(lay_input))

\* a call has returned a title for a first page with more than five
\* fragments within 1.0pt of its largest font size
C17_Witness ==
    /\ Len(lay_runs) >= 1
    /\ lay_input.pages # <<>>
    /\ Len(Within1pt(lay_input.pages[1].blocks,
                     Largest(lay_input.pages[1].blocks, 0))) > 5
    /\ lay_runs[1].sections[1].section_type = "title"
    /\ Len(lay_runs[1].sections) > 1


\* the step of the block loop opens a section
Opens ==
    /\ current_section' # <<>>
    /\ current_section' # current_section
    /\ current_section'[1].content = <<>>

\* the step appends the heading to the open section as a marker, and opens
\* and saves no section
Marks(txt) ==
    /\ lay_sections' = lay_sections
    /\ current_section # <<>>
    /\ current_section' # <<>>
    /\ current_section'[1].section_type = current_section[1].section_type
    /\ current_section'[1].heading = current_section[1].heading
    /\ current_section'[1].content
          = current_section[1].content \o S("\n### ") \o txt \o <<"\n">>

\* what the step of the block loop does with a block of stripped text txt
\* that classifies as stype
MarkerOrSection(block, txt, stype) ==
    /\ Opens => stype # "other"
    /\ (txt # <<>> /\ Check1(block, txt, lay_sizes) /\ stype = "other"
            /\ current_section # <<>>)
          => Marks(txt)

BlockLoopStep ==
    /\ lay_pc = "blocks"
    /\ lay_k <= Len(all_blocks)
    /\ lay_k' = lay_k + 1

\* C18: in the font-based pass a fragment that signal (a) finds to be a
\* heading and that classifies as other never starts a section: it is
\* appended to the content of the open section as a "### heading" marker;
\* a fragment starts a section only when it classifies as a type that is
\* not other.
C18_OtherNeverOpens ==
    [][BlockLoopStep =>
          MarkerOrSection(all_blocks[lay_k], Strip(all_blocks[lay_k].text),
                          classify_section(Strip(all_blocks[lay_k].text)))]_vars


\* the number of sections of a type other than title and other
NamedCount(secs) ==
    Cardinality({i \in 1..Len(secs) : secs[i].section_type \notin {"title", "other"}})

\* the title section, if any
TitleFirst(secs) ==
    IF secs # <<>> /\ secs[1].section_type = "title" THEN <<secs[1]>> ELSE <<>>

\* the fallback step leaves line_scan after the title, or the sections as
\* they were
Escalated(line_scan) ==
    IF NamedCount(lay_sections) < 2 /\ NamedCount(line_scan) > NamedCount(lay_sections)
    THEN lay_sections' = TitleFirst(lay_sections) \o line_scan
    ELSE lay_sections' = lay_sections

\* C19: the result of the line-based scan replaces the font-based result
\* only when the font-based pass found fewer than 2 sections of a type
\* other than title and other and the line-based scan found strictly more
\* of them; the result is then the title section, if any, followed by the
\* sections of the line scan. Otherwise the font-based sections are kept
\* unchanged, in their order.
C19_FallbackEscalation ==
    [][(lay_pc = "fallback" /\ lay_pc' = "abstract")
          => Escalated(_extract_sections_from_text(lay_text, lay_language))]_vars

\* the sections of the font-based pass
FontBased ==
    Saved(BlockLoop([sections |-> FirstPass(lay_doc, lay_sizes), current |-> <<>>],
                    all_blocks, 1, lay_sizes))

\* the fallback step has replaced the sections of the font-based pass and
\* has kept the title
C19_Witness ==
    /\ lay_pc = "abstract"
    /\ Len(lay_sections) >= 2
    /\ lay_sections[1].section_type = "title"
    /\ lay_sections # FontBased
    /\ NamedCount(FontBased) < NamedCount(lay_sections)


AbstractsOf(secs) == {i \in 1..Len(secs) : secs[i].section_type = "abstract"}

\* after is before with one section put in at index pos (counted from 0)
InsertedAt(before, after, pos) ==
    /\ Len(after) = Len(before) + 1
    /\ \A i \in 1..Len(before) : after[IF i <= pos THEN i ELSE i + 1] = before[i]

\* the abstract step puts in a synthetic abstract of more than 50
\* characters, after the title if there is one and first otherwise, into
\* sections that have no abstract
Synthetic ==
    /\ AbstractsOf(lay_sections) = {}
    /\ InsertedAt(lay_sections, lay_sections', Len(TitleFirst(lay_sections)))
    /\ AbstractsOf(lay_sections') = {Len(TitleFirst(lay_sections)) + 1}
    /\ Len(lay_sections'[Len(TitleFirst(lay_sections)) + 1].content) > 50
    /\ TitleFirst(lay_sections') = TitleFirst(lay_sections)

\* C20: a synthetic abstract section is inserted only when, after the font
\* pass and the line-based fallback, no section is an abstract and the
\* captured text is longer than 50 characters; it is inserted directly
\* after the title section when the first section is a title and at index
\* 0 otherwise, so that no second abstract section is produced and the
\* title stays first.
C20_SyntheticAbstract ==
    [][(lay_pc = "abstract" /\ lay_pc' = "full")
          => (lay_sections' = lay_sections \/ Synthetic)]_vars

\* a synthetic abstract has been inserted after the title
C20_Witness ==
    /\ lay_pc = "full"
    /\ Len(lay_sections) >= 2
    /\ lay_sections[1].section_type = "title"
    /\ lay_sections[2] = Section("abstract", S("Abstract"), lay_sections[2].content, 0, 0)
    /\ AbstractsOf(FontBased) = {}
    /\ Len(lay_sections[2].content) > 50


EndsWith(txt, tail) ==
    Len(tail) <= Len(txt) /\ SubSeq(txt, Len(txt) - Len(tail) + 1, Len(txt)) = tail

\* the pages (counted from 0) on which a fragment or a line of text is
\* the text
FoundOn(doc, blocks, txt) ==
    {blocks[k].page_num : k \in {j \in 1..Len(blocks) : Strip(blocks[j].text) = txt}}
        \cup {p - 1 : p \in {q \in 1..Len(doc.pages) :
                \E ln \in 1..Len(SplitLines(doc.pages[q].raw_text, 1)) :
                    Strip(SplitLines(doc.pages[q].raw_text, 1)[ln]) = txt}}

\* the pages on which a fragment is the end of the content
EndsOn(blocks, txt) ==
    {blocks[k].page_num :
        k \in {j \in 1..Len(blocks) :
                 Strip(blocks[j].text) # <<>> /\ EndsWith(txt, Strip(blocks[j].text))}}

\* a section of the document starts on the page of its heading and ends on
\* the page of the last text of its content
PagesOf(sec, doc, blocks) ==
    /\ sec.page_start <= sec.page_end
    /\ FoundOn(doc, blocks, sec.heading) # {}
          => sec.page_start \in FoundOn(doc, blocks, sec.heading)
    /\ (FoundOn(doc, blocks, sec.heading) # {} /\ Strip(sec.content) # <<>>)
          => sec.page_end \in EndsOn(blocks, Strip(sec.content))

\* C22: for every section analyze_layout returns, page_start <= page_end,
\* page_start is the page on which the heading of the section was found and
\* page_end the page of the last text appended to its content, for the
\* sections of the font-based pass and for those of the line-based scan of
\* a document of several pages.
C22_PagesOfSection ==
    \A r \in 1..Len(lay_runs) :
        \A k \in 1..Len(lay_runs[r].sections) :
            lay_runs[r].sections[k].section_type # "title"
                => PagesOf(lay_runs[r].sections[k], lay_input,
                           MergePages(lay_input.pages, 1))

\* all the fragments of the document
RECURSIVE Fragments(_, _)
Fragments(pages, p) ==
    IF p > Len(pages) THEN <<>> ELSE pages[p].blocks \o Fragments(pages, p + 1)

\* the characters of the fragments of a rounded size
RECURSIVE Weight(_, _, _)
Weight(blocks, k, size) ==
    IF k > Len(blocks) THEN 0
    ELSE (IF Round1(blocks[k].font_size) = size THEN Len(blocks[k].text) ELSE 0)
            + Weight(blocks, k + 1, size)

Observed(blocks) == {Round1(blocks[k].font_size) : k \in 1..Len(blocks)}

\* the observed sizes in (body_size, body_size + 6]
Above(blocks, body_size) ==
    {z \in Observed(blocks) : body_size < z /\ z <= body_size + 600}

SizesAsStated(sizes, blocks) ==
    /\ sizes.body_size < sizes.heading_size
    /\ sizes.heading_size <= sizes.body_size + 600
    /\ blocks # <<>> =>
          /\ sizes.body_size \in Observed(blocks)
          /\ \A z \in Observed(blocks) :
                Weight(blocks, 1, z) <= Weight(blocks, 1, sizes.body_size)
          /\ sizes.heading_size
                = IF Above(blocks, sizes.body_size) # {}
                  THEN MinOf(Above(blocks, sizes.body_size))
                  ELSE sizes.body_size + 150

\* C23: find_heading_font_size returns as body_size the rounded font size
\* whose characters, summed over all the fragments of the document, are the
\* most, and as heading_size the smallest observed rounded size in
\* (body_size, body_size + 6], or body_size + 1.5 when there is none; so
\* body_size < heading_size <= body_size + 6 for every document.
C23_BodyAndHeadingSize ==
    lay_pc # "idle" => SizesAsStated(lay_sizes, Fragments(lay_doc.pages, 1))
\* ------------------------------------------------------------------------
\* Properties of the parsing pipeline
\* ------------------------------------------------------------------------

\* the rows a run added to a table, in the order of the table
RowsOf(table, t) == SelectSeq(table, LAMBDA row : row.id.run = t)

\* C3: the section rows one run of the pipeline stores are the sections
\* analyze_layout returned to it, in that sequence, and the k-th of them
\* (counting from 0) has order k: the orders are exactly 0..n-1, each once.
C3_OrderIsPosition ==
    \A t \in 1..Len(async_tasks) :
        \E rows \in {RowsOf(paper_sections, t)} :
            \/ rows = <<>>
            \/ /\ Len(rows) = Len(sections_data[t])
               /\ \A k \in 1..Len(rows) :
                     /\ rows[k].order = k - 1
                     /\ rows[k].section_type = sections_data[t][k].section_type
                     /\ rows[k].heading = sections_data[t][k].heading
                     /\ rows[k].content = sections_data[t][k].content
               /\ {rows[k].order : k \in 1..Len(rows)} = 0..(Len(rows) - 1)

\* a run has stored sections on both pages of a document, four in all
C3_Witness ==
    \E t \in 1..Len(async_tasks) :
        \E rows \in {RowsOf(paper_sections, t)} :
            /\ Len(rows) >= 4
            /\ rows[1].page_start # rows[Len(rows)].page_start

\* parse_pdf raised in run t
ExtractionFailed(t) == pipe_error[t] # <<>> /\ parsed_doc[t] = <<>>

C9_Aborted ==
    \A t \in 1..Len(async_tasks) :
        ExtractionFailed(t) =>
            /\ RowsOf(paper_sections, t) = <<>>
            /\ RowsOf(paper_tables, t) = <<>>
            /\ RowsOf(paper_references, t) = <<>>
            /\ parsed_doc[t] = <<>>
            /\ sections_data[t] = <<>>
            /\ pipe_pc[t] \in {"except", "done"}
            /\ pipe_pc[t] = "done" =>
                  /\ async_tasks[t].status = "failed"
                  /\ async_tasks[t].error_message = pipe_error[t]
                  /\ async_tasks[t].current_step = "Failed"

C9_Fails ==
    \A t \in 1..Len(async_tasks) :
        (ExtractionFailed(t) /\ pipe_pc[t] = "except" /\ pipe_pc'[t] # "except") =>
            /\ pipe_pc'[t] = "done"
            /\ paper'.parsing_status = "failed"
            /\ async_tasks'[t].status = "failed"
            /\ async_tasks'[t].error_message = <<OpenError>>

\* C9: a run in which parse_pdf raised stores no section, table or
\* reference and runs no later stage; its next and last step sets the
\* paper's parsing_status to failed and the task to failed with the message
\* of the error.
C9_AbortOnExtractionFailure == []C9_Aborted /\ [][C9_Fails]_vars

\* a run on a file that does not open has ended: task and paper are failed
C9_Witness ==
    /\ ~pdf.opens
    /\ pipe_pc[1] = "done"
    /\ async_tasks[1].status = "failed"
    /\ async_tasks[1].error_message = <<OpenError>>
    /\ paper.parsing_status = "failed"

\* C10: a run in which parse_pdf raised goes on with the document
\* parse_pdf_fallback returns for the file.
C10_FallbackConsumed ==
    \A t \in 1..Len(async_tasks) :
        (parse_pdf(pdf).raised /\ pipe_pc[t] \notin {"start", "parse"}) =>
            parsed_doc[t] = <<parse_pdf_fallback(pdf)>>

\* extracting the table raises: table.extract() does, or a row is too short
Failing(tbl) ==
    \/ tbl.raises
    \/ /\ Len(tbl.extracted) >= 2
       /\ ShortRow(tbl.extracted, non_empty_indices(raw_headers(tbl.extracted[1])))

\* the file without the tables whose extraction raises
WithoutFailing(file) ==
    [file EXCEPT !.pages = [p \in 1..Len(file.pages) |->
        [file.pages[p] EXCEPT !.tables.found =
            SelectSeq(file.pages[p].tables.found, LAMBDA tbl : ~Failing(tbl))]]]

\* page, headers and rows of tables (the caption goes by the table's index)
Core(tables) ==
    [k \in 1..Len(tables) |->
        [page |-> tables[k].page, headers |-> tables[k].headers,
         rows |-> tables[k].rows]]

\* the tables expected of a file: those of the tables that do not fail,
\* none when table extraction fails as a whole
ExpectedTables(res) == IF res.raised THEN <<>> ELSE Core(res.value)

\* C11: a table whose extraction fails is skipped alone, the other tables
\* of its page and of later pages are stored; when table extraction fails
\* as a whole the run stores no table, still stores the references and
\* ends completed. Stated of the latest run, whose rows no reparse deleted,
\* when parse_pdf returned a document to it and parse_references does not
\* raise.
C11_TableFailureContained ==
    \A t \in {Len(async_tasks)} :
        (parsed_doc[t] # <<>> /\ pipe_pc[t] \in {"references", "finish", "except", "done"}) =>
            /\ Core(RowsOf(paper_tables, t))
                  = ExpectedTables(extract_tables_from_pdf(WithoutFailing(pdf)))
            /\ ~refs_data(ref_sections(t)).raised =>
                  /\ pipe_error[t] = <<>>
                  /\ pipe_pc[t] # "except"
                  /\ pipe_pc[t] \in {"finish", "done"} =>
                        RowsOf(paper_references, t) = ReferenceRows(t, ref_sections(t))
                  /\ pipe_pc[t] = "done" =>
                        /\ async_tasks[t].status = "completed"
                        /\ async_tasks[t].progress = 100

\* a run has ended completed on a file with two failing tables: the table
\* after each of them is stored, and so are the references
C11_Witness ==
    /\ \E p \in 1..Len(pdf.pages) :
          \E k \in 1..Len(pdf.pages[p].tables.found) :
              Failing(pdf.pages[p].tables.found[k])
    /\ pipe_pc = <<"done">>
    /\ async_tasks[1].status = "completed"
    /\ Len(paper_tables) = 2
    /\ paper_tables[1].page = 1
    /\ paper_tables[2].page = 2
    /\ paper_references # <<>>



\* every run launched so far has ended
NoRunInProgress == \A t \in 1..Len(async_tasks) : pipe_pc[t] = "done"

\* the order values of the rows are 0..n-1, each once
OrdersOfOneRun(rows) ==
    /\ \A a, b \in 1..Len(rows) : a # b => rows[a].order # rows[b].order
    /\ {rows[k].order : k \in 1..Len(rows)} = 0..(Len(rows) - 1)

\* C27: after any sequence of parse triggers (upload, start_parsing,
\* reparse) and completed runs, the sections stored for the paper have
\* pairwise distinct order values forming 0..n-1: they are the sections of
\* a single run, not an accumulation of several runs.
C27_SectionsOfOneRun ==
    NoRunInProgress => OrdersOfOneRun(paper_sections)

\* the runs launched that have reached neither completed nor failed
InProgress == {t \in 1..Len(async_tasks) : pipe_pc[t] # "done"}

\* C28: at most one run of the pipeline is in progress for the paper at any
\* time: while a launched run has reached neither completed nor failed, a
\* further trigger (start_parsing, reparse_paper) launches no second run,
\* under every interleaving of requests and worker threads.
C28_OneRunInProgress == Cardinality(InProgress) <= 1

\* the task is completed or failed
Terminal(t) == async_tasks[t].status \in {"completed", "failed"}

\* the values run_parsing_pipeline gives to the progress of a task
ProgressValues == {0, 10, 30, 50, 70, 85, 100}

\* a task is terminal when its run has ended and not before; only a
\* completed task has progress 1.0
C30_TerminalWhenEnded ==
    \A t \in 1..Len(async_tasks) :
        /\ Terminal(t) <=> pipe_pc[t] = "done"
        /\ async_tasks[t].progress \in ProgressValues
        /\ async_tasks[t].status = "completed" <=> async_tasks[t].progress = 100

\* a step leaves a terminal task as it is and lowers the progress of no
\* task; the step that ends a run while no other run is in progress gives
\* the paper the status of the task
C30_Step ==
    \A t \in 1..Len(async_tasks) :
        /\ Terminal(t) => async_tasks'[t] = async_tasks[t]
        /\ async_tasks'[t].progress >= async_tasks[t].progress
        /\ (InProgress = {t} /\ pipe_pc'[t] = "done" /\ Len(async_tasks') = Len(async_tasks))
              => paper'.parsing_status = async_tasks'[t].status

\* every task launched becomes terminal
C30_Ends ==
    \A t \in 1..MaxTasks : (Len(async_tasks) >= t) ~> (Len(async_tasks) >= t /\ Terminal(t))

\* C30: every task launched for run_parsing_pipeline on an existing paper
\* eventually reaches one terminal status, completed or failed, and is not
\* updated afterwards; before that its progress never decreases (0.1, 0.3,
\* 0.5, 0.7, 0.85, then 1.0 on completion); when no other run of the paper
\* overlaps, the task ends completed exactly when the paper's
\* parsing_status ends completed, and failed exactly when it ends failed.
C30_TaskLifecycle == []C30_TerminalWhenEnded /\ [][C30_Step]_vars /\ C30_Ends

\* the run of the upload and the run of a later trigger have both ended:
\* both tasks are terminal, one of them completed with progress 1.0, and
\* the paper has the status of the second
C30_Witness ==
    /\ Len(async_tasks) = MaxTasks
    /\ NoRunInProgress
    /\ \A t \in 1..MaxTasks : Terminal(t)
    /\ paper.parsing_status = async_tasks[MaxTasks].status
    /\ \E t \in 1..MaxTasks : async_tasks[t].progress = 100
\* ------------------------------------------------------------------------
\* Determinism of the three functions
\* ------------------------------------------------------------------------

LineMarker ==
    RxSeq(<<RxSp0, RxAlt(<<RxSeq(<<RxLit("["), RxPlus(RxDigit), RxLit("]")>>),
                           RxSeq(<<RxPlus(RxDigit), RxLit("."), RxSp>>)>>)>>)

\* no line of the text starts with a marker
NoMarker(lines) ==
    \A i \in 1..Len(lines) : ~RxMatch(LineMarker, lines[i], Flags(FALSE, FALSE))

\* the stripped lines longer than 20 characters, each with its position
RECURSIVE LongLines(_, _)
LongLines(lines, i) ==
    IF i > Len(lines) THEN <<>>
    ELSE (IF Len(Strip(lines[i])) > ReferenceLength
          THEN <<[raw_text |-> Strip(lines[i]), order |-> i]>> ELSE <<>>)
            \o LongLines(lines, i + 1)

TextAndOrder(refs) ==
    [k \in 1..Len(refs) |-> [raw_text |-> refs[k].raw_text, order |-> refs[k].order]]

\* C12: for a text no line of which starts with a marker, parse_references
\* returns one reference per line whose stripped length exceeds 20, with
\* the position of the line as order, and none for the other lines.
C12_LinePerReference ==
    \A r \in 1..Len(ref_runs) :
        NoMarker(SplitLines(ref_input, 1)) =>
            /\ ~ref_runs[r].raised
            /\ TextAndOrder(ref_runs[r].value)
                  = LongLines(SplitLines(Strip(ref_input), 1), 1)

\* C13: parse_references raises on no text, and on the example of the
\* specification it returns one reference of year 2019 whose authors are
\* exactly Smith, J. and Doe, A.
C13_SmithAndDoe ==
    \A r \in 1..Len(ref_runs) :
        /\ ~ref_runs[r].raised
        /\ ref_input = SmithAndDoe =>
              /\ Len(ref_runs[r].value) = 1
              /\ ref_runs[r].value[1].year = <<2019>>
              /\ ref_runs[r].value[1].authors = <<S("Smith, J."), S("Doe, A.")>>

\* the marker a line starts with
MarkerOf(line) ==
    SubSeq(line, 1, Len(line) - Len(Sub(LineMarker, line, Flags(FALSE, FALSE))))

\* the entry of a line that starts with a marker: the text after the
\* marker, the number of the marker as order
EntryOf(line) ==
    [raw_text |-> Strip(Sub(LineMarker, line, Flags(FALSE, FALSE))),
     order    |-> ToInt(SelectSeq(MarkerOf(line), LAMBDA c : c \in Digits))]

\* the entries of the lines after the heading References
RECURSIVE EntriesFrom(_, _, _)
EntriesFrom(lines, i, listed) ==
    IF i > Len(lines) THEN <<>>
    ELSE IF ~listed
    THEN EntriesFrom(lines, i + 1, Strip(lines[i]) = S("References"))
    ELSE (IF RxMatch(LineMarker, lines[i], Flags(FALSE, FALSE))
          THEN <<EntryOf(lines[i])>> ELSE <<>>)
            \o EntriesFrom(lines, i + 1, TRUE)

EntryPerReference(rows, entries) ==
    Len(entries) >= 2 => TextAndOrder(rows) = entries

\* C21: for a document whose references section lists k >= 2 entries, each
\* starting a line with a [n] or n. marker, the run stores k references,
\* one per entry: the entry marked n has order n and its raw_text is the
\* entry without the marker.
C21_EntryPerReference ==
    \A t \in {Len(async_tasks)} \ {0} :
        (parsed_doc[t] # <<>> /\ pipe_error[t] = <<>>
                /\ pipe_pc[t] \in {"finish", "done"})
            => EntryPerReference(RowsOf(paper_references, t),
                   EntriesFrom(SplitLines(FullTextOf(parsed_doc[t][1]), 1), 1, FALSE))

\* ------------------------------------------------------------------------
\* detect_language and classify_section
\* ------------------------------------------------------------------------

CountOf(txt, Among(_)) == Cardinality({i \in 1..Len(txt) : Among(txt[i])})

NonWhitespace(c) == c \notin Spaces

\* C14: detect_language returns "zh" exactly when the CJK characters are
\* more than 0.3 of the non-whitespace characters of the text, that is when
\* 10 * cjk > 3 * nonwhitespace, and "en" otherwise, the empty text included
C14_ShareOfNonWhitespace ==
    \A r \in 1..Len(txt_language) :
        /\ txt_language[r] \in {"zh", "en"}
        /\ txt_language[r] = "zh"
              <=> 10 * CountOf(txt_input, IsCJK) > 3 * CountOf(txt_input, NonWhitespace)

\* the section type of each bare name, read off SECTION_PATTERNS
TypeOfName(n) ==
    CASE n \in {S("Abstract"), <<"U6458", "U8981">>, S("Summary")} -> "abstract"
      [] n = S("Introduction") -> "introduction"
      [] n \in {S("Related Work"), S("Background")} -> "related_work"
      [] n \in {S("Methods"), S("Proposed Method")} -> "methods"
      [] n = S("Experiments") -> "experiments"
      [] n = S("Results and Discussion") -> "results"
      [] n = S("Discussion") -> "discussion"
      [] n \in {S("Conclusions"), S("Summary and Future Work")} -> "conclusion"
      [] n = S("Acknowledgments") -> "acknowledgments"
      [] n = S("Appendix A") -> "appendix"
      [] n \in {S("References"), <<"U53C2", "U8003", "U6587", "U732E">>} -> "references"
      [] OTHER -> "other"

\* C15: classify_section strips leading numbering (dotted decimals, Roman
\* numerals, single-letter markers) and lower-cases before matching, and
\* returns the type of the matching pattern, "other" when there is none:
\* "3.2 Related Work" is related_work, the Chinese heading for abstract is
\* abstract, and a known name with a numbering prefix classifies as the
\* bare name does
C15_NumberingStripped ==
    \A r \in 1..Len(txt_type) :
        /\ txt_input = S("3.2 Related Work") => txt_type[r] = "related_work"
        /\ txt_input = <<"U6458", "U8981">> => txt_type[r] = "abstract"
        /\ \A n \in BareNames :
              \A p \in {<<>>} \cup DecimalPrefixes \cup OtherPrefixes :
                  txt_input = p \o n => txt_type[r] = TypeOfName(n)
        /\ txt_input \in LanguageTexts => txt_type[r] = "other"

\* a numbered heading whose pattern allows no numbering has been classified
C15_Witness ==
    /\ txt_input = S("1. ") \o S("Abstract")
    /\ txt_type = <<"abstract">>

====
